---- MODULE Spec2Model ----
(***************************************************************************)
(* Model of the findable query runner (services/runner):                   *)
(*   queue.py      RedisQueue: sorted set of pending sessions + in-flight  *)
(*                 set, enqueue_session / get_next_session                 *)
(*   db_client.py  QueryDatabaseClient: RunSession rows, RunResult rows    *)
(*   main.py       QueryRunner: run_query, process_session, start_worker   *)
(*   api.py        POST /sessions/{id}/process (direct process_session)    *)
(*   parser.py     ResponseParser: mentions, project / competitor mentions *)
(*   models/       OpenAIClient / AnthropicClient: query and its retries   *)
(* Every await on Redis, on the database or on a model client is a point   *)
(* where the call may raise; the model chooses the outcome there.          *)
(* Strings the parser works on are sequences of characters; a response    *)
(* text is a sequence of words.                                            *)
(* The specifications:                                                     *)
(*   Spec        two workers polling the queue the API enqueues into       *)
(*   SpecApi     one worker next to a background pass started by the API   *)
(*   SpecPass    one background pass over any session, the large one too   *)
(*   SpecExtract the extraction steps of one attempt of run_query, for     *)
(*               every response text and project_info                      *)
(*   SpecClient  invocations of a model client's query                     *)
(***************************************************************************)
EXTENDS Integers, Sequences, FiniteSets, TLC

\* ---------------------------------------------------------------- bounds
MaxEnqueues == 2
MaxWords == 2

\* ------------------------------------------------------- processes, data
Workers == {"w1", "w2"}
Direct == {"api"}
Procs == Workers \cup Direct

\* ids that may be handed to the queue or to process_session; "s0" has no
\* RunSession row, "s3" is the large session of the single-pass specification
Ids == {"s1", "s2", "s3", "s0"}

\* the ids the worker system enqueues
SystemIds == {"s1", "s2", "s0"}

\* the ids and the worker of the specification with the API's background pass
ApiIds == {"s1", "s0"}
ApiWorkers == {"w1"}

\* RunSession rows as get_session returns them (id, projectId, metadata)
SessionTable ==
  [s1 |-> [projectId |-> "p1",
           metadata |-> [queries |-> <<"q1">>,
                         models |-> <<"gpt-4", "gemini-pro">>,
                         runCount |-> 2]],
   s2 |-> [projectId |-> "p2",
           metadata |-> [queries |-> <<"q1">>,
                         models |-> <<"claude-3-opus", "gpt-4">>,
                         runCount |-> 1]],
   s3 |-> [projectId |-> "p1",
           metadata |-> [queries |-> <<"q1", "q2">>,
                         models |-> <<"gpt-4", "gemini-pro", "claude-3-opus">>,
                         runCount |-> 2]]]

Sessions == DOMAIN SessionTable

\* active Project rows; "p2" has none
Projects == {"p1"}

\* keys of QueryRunner.clients when both API keys are set
Clients == {"gpt-4", "gpt-4-turbo", "gpt-3.5-turbo",
            "claude-3-opus", "claude-3-sonnet", "claude-3-haiku"}

Priorities == {"low", "normal", "high", "urgent"}

\* how one attempt of run_query may end: everything worked; client.query
\* raised after its retries; parse() caught an error and returned empty
\* lists, and the save worked; save_run_result raised
Outcomes == {"ok", "client_fail", "parse_fail", "save_fail"}

NULL == "NULL"
NoSession == "none"
NoError == "no error"

\* what a database call that raises reports
BookkeepingErrors == {"get_session failed", "update_session_status failed",
                      "get_project_info failed"}

VARIABLES
  queue,        \* sorted set findable:query_sessions, as <<member, score>> pairs
  processing,   \* set findable:processing_sessions
  session,      \* RunSession rows: status, startedAt, completedAt, errorMessage
  runResults,   \* number of RunResult rows per session id
  pc,           \* where each worker / background task stands
  loc,          \* the locals of the process_session pass each process runs
  nEnq,         \* enqueue_session calls that reached the sorted set so far
  episodes,     \* per id: times an enqueue put it into the pending queue
  pops,         \* per id: times zpopmax removed it
  returned,     \* per id: times get_next_session returned it
  lastWeight,   \* per id: score of its latest enqueue while pending, 0 if none
  passes,       \* per id: process_session passes started that found the row
  extraction,   \* one attempt's extraction: response, parse result, merge
  clientCall,   \* one invocation of a model client's query with its retries
  snippetCall,  \* one call of _extract_snippets: arguments and result
  citationCall, \* one call of _extract_citations, and its re-application
  promptCall    \* one call of build_findability_prompt: arguments, result

\* the state of the queue, the database and the processes
runnerVars == <<queue, processing, session, runResults, pc, loc, nEnq,
                episodes, pops, returned, lastWeight, passes>>

\* the calls of the pure functions of parser.py and prompt_builder.py
callVars == <<snippetCall, citationCall, promptCall>>

vars == <<runnerVars, extraction, clientCall, callVars>>

\* ----------------------------------------------------------- queue.py
\* enqueue_session: the priority -> score table with its default
PriorityScore(priority) ==
  CASE priority = "low" -> 1
    [] priority = "normal" -> 5
    [] priority = "high" -> 10
    [] OTHER -> 5

Members(zset) == {e[1] : e \in zset}

\* a ZADD that adds an entry without replacing the member's old one
ZAdd_NoReplace(zset, member, score) == zset \cup {<<member, score>>}

\* redis ZADD key {member: score}: insert, or replace the member's score
ZAdd(zset, member, score) ==
  {e \in zset : e[1] # member} \cup {<<member, score>>}

\* a pop that takes the lowest score (ZPOPMIN)
ZPopMinChoices(zset) ==
  {e \in zset : \A f \in zset : e[2] <= f[2]}

\* redis ZPOPMAX key: the entries it may pop (ties are the store's business)
ZPopMaxChoices(zset) ==
  {e \in zset : \A f \in zset : f[2] <= e[2]}

\* a read of the highest entry that leaves it in the sorted set (ZRANGE)
ZPopRemove_Peek(zset, e) == zset

\* redis ZPOPMAX key: the sorted set once entry e is popped
ZPopRemove(zset, e) == zset \ {e}

\* a get_next_session that forgets to mark the session as processing
SAdd_Dropped(set, member) == set

\* redis SADD key member
SAdd(set, member) == set \cup {member}

\* ----------------------------------------------------------- db_client.py
Upper(status) ==
  CASE status = "running" -> "RUNNING"
    [] status = "completed" -> "COMPLETED"
    [] status = "failed" -> "FAILED"
    [] status = "queued" -> "QUEUED"
    [] OTHER -> status

\* update_session_status: the row after the UPDATE
UpdateSessionStatus(row, status, error_message) ==
  IF Upper(status) = "RUNNING"
  THEN [row EXCEPT !.status = Upper(status), !.startedAt = TRUE]
  ELSE IF Upper(status) \in {"COMPLETED", "FAILED"}
       THEN [row EXCEPT !.status = Upper(status), !.completedAt = TRUE,
                        !.errorMessage = error_message]
       ELSE [row EXCEPT !.status = Upper(status)]

\* ----------------------------------------------------------- main.py
InitLoc == [sid |-> NoSession, score |-> 0, qi |-> 0, mi |-> 0, ri |-> 0,
            writes |-> <<>>, saved |-> 0, calls |-> {}, queriesRun |-> {},
            last |-> "none", lastSaved |-> FALSE, clientFailed |-> FALSE,
            saveFailed |-> FALSE, exc |-> NoError, project |-> "unset",
            market |-> "unset", analysis |-> "unset", provider |-> 0,
            issued |-> <<>>, results |-> <<>>, steps |-> <<>>]

Metadata(sid) == SessionTable[sid].metadata

\* range(run_count + 1): one run too many
RunRange_OffByOne(run_count) == 0 .. run_count

\* range(run_count)
RunRange(run_count) == 0 .. (run_count - 1)

\* a model loop that stops at the first declared model without a client
\* (break instead of continue)
NextModel_Break(models, run_count, mi) ==
  IF mi \in 1 .. Len(models) /\ models[mi] \in Clients
     /\ RunRange(run_count) # {}
  THEN mi ELSE 0

\* for model_id in models: client = self.clients.get(model_id);
\* if not client: continue  -- index of the next model at or after mi that
\* gets attempts, 0 when the loop is exhausted
NextModel(models, run_count, mi) ==
  LET ok == {k \in mi .. Len(models) :
               models[k] \in Clients /\ RunRange(run_count) # {}}
  IN IF ok = {} THEN 0 ELSE CHOOSE k \in ok : \A j \in ok : k <= j

\* the (query, model, run) triples one pass attempts for a session
Attempts(sid) ==
  LET md == Metadata(sid)
  IN {<<q, m, r>> \in (1 .. Len(md.queries)) \X (1 .. Len(md.models))
                       \X RunRange(md.runCount) : md.models[m] \in Clients}

InPass(p) == pc[p] \in {"get_session", "set_running", "get_project",
                        "run_query", "attempt", "set_completed", "except",
                        "done", "raised"}

\* ----------------------------------------------------------- strings
\* a Python str is the sequence of its characters; None is the empty
\* option and a str value s is the option <<s>>
Uppers == <<"A", "B", "C", "D", "E", "F", "G", "H", "I", "J", "K", "L", "M">>
          \o <<"N", "O", "P", "Q", "R", "S", "T", "U", "V", "W", "X", "Y", "Z">>

Lowers == <<"a", "b", "c", "d", "e", "f", "g", "h", "i", "j", "k", "l", "m">>
          \o <<"n", "o", "p", "q", "r", "s", "t", "u", "v", "w", "x", "y", "z">>

Digits == {"0", "1", "2", "3", "4", "5", "6", "7", "8", "9"}

None == <<>>

Some(s) == <<s>>

IsUpper(c) == \E i \in DOMAIN Uppers : Uppers[i] = c

IsLower(c) == \E i \in DOMAIN Lowers : Lowers[i] = c

IsLetter(c) == IsUpper(c) \/ IsLower(c)

\* the regex classes \w and \s
IsWordChar(c) == IsLetter(c) \/ c \in Digits \/ c = "_"

IsSpace(c) == c \in {" ", "\n"}

LowerChar(c) ==
  IF IsUpper(c) THEN Lowers[CHOOSE i \in DOMAIN Uppers : Uppers[i] = c] ELSE c

UpperChar(c) ==
  IF IsLower(c) THEN Uppers[CHOOSE i \in DOMAIN Lowers : Lowers[i] = c] ELSE c

\* str.lower()
StrLower(s) == IF s = <<>> THEN <<>> ELSE [i \in 1 .. Len(s) |-> LowerChar(s[i])]

\* str.capitalize(): first character upper case, the others lower case
Capitalize(s) ==
  IF s = <<>> THEN <<>>
  ELSE [i \in 1 .. Len(s) |-> IF i = 1 THEN UpperChar(s[i]) ELSE LowerChar(s[i])]

\* str.startswith(prefix)
StartsWith(s, prefix) ==
  Len(prefix) <= Len(s) /\ SubSeq(s, 1, Len(prefix)) = prefix

RECURSIVE LStrip(_)
LStrip(s) == IF s # <<>> /\ IsSpace(s[1]) THEN LStrip(Tail(s)) ELSE s

RECURSIVE RStrip(_)
RStrip(s) ==
  IF s # <<>> /\ IsSpace(s[Len(s)]) THEN RStrip(SubSeq(s, 1, Len(s) - 1)) ELSE s

\* str.strip()
Strip(s) == RStrip(LStrip(s))

Range(seq) == {seq[i] : i \in DOMAIN seq}

Min(S) == CHOOSE x \in S : \A y \in S : x <= y

Max(S) == CHOOSE x \in S : \A y \in S : y <= x

\* a response text is given by its words, which are joined by single blanks
RECURSIVE Join(_)
Join(words) ==
  IF words = <<>> THEN <<>>
  ELSE IF Len(words) = 1 THEN words[1]
  ELSE words[1] \o <<" ">> \o Join(Tail(words))

\* ----------------------------------------------------------- parser.py
\* the words of the indicator patterns of __init__ (self.mention_indicators)
UseIndicators == {<<"u", "s", "e">>,
                 <<"u", "s", "e", "s">>,
                 <<"u", "s", "i", "n", "g">>,
                 <<"w", "i", "t", "h">>,
                 <<"v", "i", "a">>,
                 <<"t", "h", "r", "o", "u", "g", "h">>,
                 <<"f", "r", "o", "m">>}

VerbIndicators == {<<"i", "s">>,
                  <<"w", "a", "s">>,
                  <<"a", "r", "e">>,
                  <<"w", "e", "r", "e">>,
                  <<"c", "a", "n">>,
                  <<"c", "o", "u", "l", "d">>,
                  <<"w", "i", "l", "l">>,
                  <<"w", "o", "u", "l", "d">>}

TryIndicators == {<<"t", "r", "y">>,
                 <<"c", "o", "n", "s", "i", "d", "e", "r">>,
                 <<"r", "e", "c", "o", "m", "m", "e", "n", "d">>,
                 <<"s", "u", "g", "g", "e", "s", "t">>}

\* _extract_mentions: the list of words a cleaned match must not be
StopList == {<<"T", "h", "e">>,
            <<"T", "h", "i", "s">>,
            <<"T", "h", "a", "t">>,
            <<"T", "h", "e", "s", "e">>,
            <<"T", "h", "o", "s", "e">>}

\* _extract_mentions, tech_patterns: product suffixes and product nouns
TechSuffixes == {<<"l", "y">>,
                <<"i", "o">>,
                <<"a", "p", "p">>,
                <<"A", "I">>,
                <<"A", "P", "I">>,
                <<"S", "D", "K">>}

TechNouns == {<<"p", "l", "a", "t", "f", "o", "r", "m">>,
             <<"s", "e", "r", "v", "i", "c", "e">>,
             <<"t", "o", "o", "l">>,
             <<"s", "o", "f", "t", "w", "a", "r", "e">>,
             <<"a", "p", "p">>}

\* [A-Z][a-z]+ under re.IGNORECASE, matched from a word's start to its end:
\* a word of at least two letters
IsNameIC(word) == Len(word) >= 2 /\ \A k \in 1 .. Len(word) : IsLetter(word[k])

\* [A-Z][a-z]+(?:\s+[A-Z][a-z]+)* is greedy: the last word of the longest run
\* of such words that starts at word i
RunEnd(text, i) ==
  CHOOSE j \in i .. Len(text) :
    /\ \A k \in i .. j : IsNameIC(text[k])
    /\ j = Len(text) \/ ~IsNameIC(text[j + 1])

\* re.findall(r'\b(?:w1|w2|..)\s+([A-Z][a-z]+(?:\s+[A-Z][a-z]+)*)\b', text,
\* re.IGNORECASE) from word pos on: the matches in order, none overlapping
RECURSIVE FindAfterIndicator(_, _, _)
FindAfterIndicator(text, indicators, pos) ==
  LET starts == {i \in pos .. (Len(text) - 1) :
                   /\ StrLower(text[i]) \in indicators
                   /\ IsNameIC(text[i + 1])}
  IN IF starts = {} THEN <<>>
     ELSE LET i == Min(starts)
              e == RunEnd(text, i + 1)
          IN <<Join(SubSeq(text, i + 1, e))>>
               \o FindAfterIndicator(text, indicators, e + 1)

\* re.findall(r'\b([A-Z][a-z]+(?:\s+[A-Z][a-z]+)*)\s+(?:is|was|..)\b', text,
\* re.IGNORECASE) from word pos on: the run is cut back to the last word
\* that a verb follows
RECURSIVE FindBeforeVerb(_, _)
FindBeforeVerb(text, pos) ==
  LET ends(i) == {k \in i .. RunEnd(text, i) :
                    k + 1 <= Len(text) /\ StrLower(text[k + 1]) \in VerbIndicators}
      starts == {i \in pos .. Len(text) : IsNameIC(text[i]) /\ ends(i) # {}}
  IN IF starts = {} THEN <<>>
     ELSE LET i == Min(starts)
              k == Max(ends(i))
          IN <<Join(SubSeq(text, i, k))>> \o FindBeforeVerb(text, k + 2)

\* re.sub(r'[^\w\s]', '', match).strip()
Cleaned(match) == Strip(SelectSeq(match, LAMBDA c : IsWordChar(c) \/ IsSpace(c)))

\* if len(cleaned) >= 2 and cleaned not in ['The', 'This', ...]
KeptIndicatorMatch(match) ==
  Len(Cleaned(match)) >= 2 /\ Cleaned(match) \notin StopList

\* \b([A-Z][a-z]+(?:ly|io|app|AI|API|SDK))\b on one word
IsSuffixProduct(word) ==
  /\ word # <<>> /\ IsUpper(word[1])
  /\ \E k \in 2 .. Len(word) :
       /\ \A j \in 2 .. k : IsLower(word[j])
       /\ SubSeq(word, k + 1, Len(word)) \in TechSuffixes

\* \b([A-Z][a-z]*[A-Z][a-z]*)\b on one word
IsCamelCase(word) ==
  /\ word # <<>> /\ IsUpper(word[1])
  /\ \E k \in 2 .. Len(word) :
       /\ IsUpper(word[k])
       /\ \A j \in (2 .. Len(word)) \ {k} : IsLower(word[j])

\* ([A-Z]+[a-z]*) on one word
IsUpperThenLower(word) ==
  \E k \in 1 .. Len(word) :
    /\ \A j \in 1 .. k : IsUpper(word[j])
    /\ \A j \in (k + 1) .. Len(word) : IsLower(word[j])

\* the matches of the three tech_patterns (re.findall without flags)
TechMatches(text) ==
  {text[i] : i \in {k \in 1 .. Len(text) : IsSuffixProduct(text[k])}}
  \cup {text[i] : i \in {k \in 1 .. Len(text) : IsCamelCase(text[k])}}
  \cup {text[i] : i \in {k \in 1 .. (Len(text) - 1) :
                          /\ IsUpperThenLower(text[k])
                          /\ text[k + 1] \in TechNouns}}

\* _extract_mentions(text): list(set(mentions))
ExtractMentions(text) ==
  LET found == FindAfterIndicator(text, UseIndicators, 1)
                 \o FindBeforeVerb(text, 1)
                 \o FindAfterIndicator(text, TryIndicators, 1)
  IN {Cleaned(m) : m \in {x \in Range(found) : KeptIndicatorMatch(x)}}
     \cup {m \in TechMatches(text) : Len(m) >= 3}

\* urlparse(url).netloc: what follows "scheme://" up to the next / ? or #
Netloc(url) ==
  LET colons == {i \in 1 .. Len(url) : url[i] = ":"}
      i == IF colons = {} THEN 0 ELSE Min(colons)
      hasScheme == /\ i > 1 /\ IsLetter(url[1])
                   /\ \A k \in 1 .. (i - 1) :
                        IsLetter(url[k]) \/ url[k] \in Digits
                          \/ url[k] \in {"+", "-", "."}
      rest == IF hasScheme THEN SubSeq(url, i + 1, Len(url)) ELSE url
      delims == {k \in 3 .. Len(rest) : rest[k] \in {"/", "?", "#"}}
  IN IF Len(rest) >= 2 /\ rest[1] = "/" /\ rest[2] = "/"
     THEN SubSeq(rest, 3, IF delims = {} THEN Len(rest) ELSE Min(delims) - 1)
     ELSE <<>>

\* re.sub(r'^www\.', '', domain)
StripWww(domain) ==
  IF StartsWith(domain, <<"w", "w", "w", ".">>)
  THEN SubSeq(domain, 5, Len(domain)) ELSE domain

\* re.sub(r'\.[a-z]+$', '', domain)
StripTld(domain) ==
  LET cuts == {i \in 1 .. (Len(domain) - 1) :
                 /\ domain[i] = "."
                 /\ \A k \in (i + 1) .. Len(domain) : IsLower(domain[k])}
  IN IF cuts = {} THEN domain ELSE SubSeq(domain, 1, Min(cuts) - 1)

\* _extract_domain_name(domain); domain is an option: with None,
\* domain.startswith raises AttributeError and the except returns ""
ExtractDomainName(domain) ==
  IF domain = None THEN <<>>
  ELSE LET d0 == domain[1]
           d1 == IF StartsWith(d0, <<"h", "t", "t", "p">>) THEN Netloc(d0) ELSE d0
       IN Capitalize(StripTld(StripWww(d1)))

\* re.compile(rf'\b{re.escape(name)}\b', re.IGNORECASE).search(text)
SearchName(name, text) ==
  LET s == Join(text)
      isWord(i) == i \in 1 .. Len(s) /\ IsWordChar(s[i])
  IN \E i \in 1 .. (Len(s) - Len(name) + 1) :
       /\ \A k \in 1 .. Len(name) : LowerChar(s[i + k - 1]) = LowerChar(name[k])
       /\ isWord(i - 1) # isWord(i)
       /\ isWord(i + Len(name) - 1) # isWord(i + Len(name))

\* the loop over competitors of extract_project_mentions
RECURSIVE CompetitorMentions(_, _)
CompetitorMentions(text, competitors) ==
  IF competitors = <<>> THEN <<>>
  ELSE LET competitor_name == ExtractDomainName(Some(competitors[1]))
       IN (IF competitor_name # <<>> /\ SearchName(competitor_name, text)
           THEN <<competitor_name>> ELSE <<>>)
            \o CompetitorMentions(text, Tail(competitors))

\* extract_project_mentions(text, project_domain, competitors), with the
\* project_name it derives
ExtractProjectMentions(text, project_domain, competitors) ==
  LET project_name == ExtractDomainName(project_domain)
      project_mentions == IF project_name # <<>> /\ SearchName(project_name, text)
                          THEN <<project_name>> ELSE <<>>
      competitor_mentions == CompetitorMentions(text, competitors)
  IN [project_name |-> project_name,
      project_mentions |-> project_mentions,
      competitor_mentions |-> competitor_mentions,
      total_mentions |-> Len(project_mentions) + Len(competitor_mentions)]

\* ------------------------------------- parser.py: citations and snippets
\* these operators work on the characters of a text
\* s[i:j] for any i, j: empty when the slice is empty
Slice(s, i, j) == IF i > j THEN <<>> ELSE SubSeq(s, i, j)

\* lit occurs in text at index i
MatchAt(text, i, lit) ==
  i >= 1 /\ i + Len(lit) - 1 <= Len(text)
         /\ SubSeq(text, i, i + Len(lit) - 1) = lit

\* sub in s
Contains(sub, s) == \E i \in 1 .. (Len(s) - Len(sub) + 1) : MatchAt(s, i, sub)

\* the end of the longest run of characters of the set chars that starts
\* at index i, i - 1 when text[i] is not one of them
RECURSIVE ClassRunEnd(_, _, _)
ClassRunEnd(text, i, chars) ==
  IF i <= Len(text) /\ text[i] \in chars THEN ClassRunEnd(text, i + 1, chars)
  ELSE i - 1

\* the characters of the class of url_pattern besides letters and digits:
\* the range $-_ , then @ . & + ! * \ ( ) ,
UrlPunctuation ==
  {"$", "%", "&", "'", "(", ")", "*", "+", ",", "-", ".", "/", ":", ";", "<",
   "=", ">", "?", "@", "[", "\\", "]", "^", "_", "!"}

UrlChars == Range(Uppers) \cup Range(Lowers) \cup Digits \cup UrlPunctuation

\* the length of 'http[s]?://' at index i, 0 when it does not match there
SchemeLen(text, i) ==
  IF MatchAt(text, i, <<"h", "t", "t", "p", "s", ":", "/", "/">>) THEN 8
  ELSE IF MatchAt(text, i, <<"h", "t", "t", "p", ":", "/", "/">>) THEN 7
  ELSE 0

\* self.url_pattern.findall(text) from index pos on
RECURSIVE FindUrls(_, _)
FindUrls(text, pos) ==
  LET starts == {i \in pos .. Len(text) :
                   /\ SchemeLen(text, i) > 0
                   /\ i + SchemeLen(text, i) <= Len(text)
                   /\ text[i + SchemeLen(text, i)] \in UrlChars}
  IN IF starts = {} THEN <<>>
     ELSE LET i == Min(starts)
              e == ClassRunEnd(text, i + SchemeLen(text, i), UrlChars)
          IN <<SubSeq(text, i, e)>> \o FindUrls(text, e + 1)

\* str.strip(chars)
RECURSIVE StripChars(_, _)
StripChars(s, chars) ==
  IF s # <<>> /\ s[1] \in chars THEN StripChars(Tail(s), chars)
  ELSE IF s # <<>> /\ s[Len(s)] \in chars
       THEN StripChars(SubSeq(s, 1, Len(s) - 1), chars)
       ELSE s

\* cleaned_url = url.strip('.,!?;)')
CleanedUrl(url) == StripChars(url, {".", ",", "!", "?", ";", ")"})

\* try: parsed = urlparse(cleaned_url); if parsed.netloc: keep
\* except Exception: continue -- urlparse raises ValueError for a host with
\* a square bracket that is no bracketed IP literal
KeptUrl(cleaned_url) ==
  LET netloc == Netloc(cleaned_url)
  IN netloc # <<>> /\ \A i \in DOMAIN netloc : netloc[i] \notin {"[", "]"}

\* re.compile(r'\[(\d+)\]').findall(text), re.compile(r'\((\d+)\)') alike:
\* the digits between open and close, from index pos on
RECURSIVE FindNumbered(_, _, _, _)
FindNumbered(text, open, close, pos) ==
  LET starts == {i \in pos .. (Len(text) - 2) :
                   /\ text[i] = open
                   /\ text[i + 1] \in Digits
                   /\ ClassRunEnd(text, i + 1, Digits) < Len(text)
                   /\ text[ClassRunEnd(text, i + 1, Digits) + 1] = close}
  IN IF starts = {} THEN <<>>
     ELSE LET i == Min(starts)
              e == ClassRunEnd(text, i + 1, Digits)
          IN <<SubSeq(text, i + 1, e)>>
               \o FindNumbered(text, open, close, e + 2)

\* re.compile(label + r'\s*(.+?)(?:\n|$)', re.IGNORECASE).findall(text) from
\* index pos on, label being 'source:' or 'reference:'. \s* is greedy and
\* gives characters back until the group can start on a character that is
\* no newline; the lazy group ends before the next newline or at the end.
RECURSIVE FindLabelled(_, _, _)
FindLabelled(text, label, pos) ==
  LET n == Len(label)
      Group(i) ==
        LET first == i + n
            wsEnd == ClassRunEnd(text, first, {" ", "\n"})
            from == {s \in first .. (wsEnd + 1) :
                       s <= Len(text) /\ text[s] # "\n"}
        IN IF from = {} THEN <<>>
           ELSE LET s == Max(from)
                    nls == {k \in (s + 1) .. Len(text) : text[k] = "\n"}
                IN <<s, IF nls = {} THEN Len(text) ELSE Min(nls) - 1>>
      starts == {i \in pos .. (Len(text) - n) :
                   /\ StrLower(SubSeq(text, i, i + n - 1)) = label
                   /\ Group(i) # <<>>}
  IN IF starts = {} THEN <<>>
     ELSE LET i == Min(starts)
              g == Group(i)
          IN <<SubSeq(text, g[1], g[2])>>
               \o FindLabelled(text, label, g[2] + 2)

\* _extract_citations(text): list(set(citations))
ExtractCitations(text) ==
  LET urls == FindUrls(text, 1)
  IN {CleanedUrl(urls[i]) : i \in {k \in DOMAIN urls : KeptUrl(CleanedUrl(urls[k]))}}
     \cup Range(FindNumbered(text, "[", "]", 1))
     \cup Range(FindNumbered(text, "(", ")", 1))
     \cup Range(FindLabelled(text, <<"s", "o", "u", "r", "c", "e", ":">>, 1))
     \cup Range(FindLabelled(text,
                            <<"r", "e", "f", "e", "r", "e", "n", "c", "e", ":">>,
                            1))

\* re.split(r'[.!?]+', text)
RECURSIVE SplitSentences(_)
SplitSentences(text) ==
  LET enders == {".", "!", "?"}
      ends == {i \in DOMAIN text : text[i] \in enders}
  IN IF ends = {} THEN <<text>>
     ELSE LET i == Min(ends)
              j == ClassRunEnd(text, i, enders)
          IN <<Slice(text, 1, i - 1)>>
               \o SplitSentences(Slice(text, j + 1, Len(text)))

\* len(cleaned) > 20
SnippetMinLength == 20

\* snippets[:10]
SnippetLimit == 10

\* len(cleaned) > 20
LongEnough(cleaned) == Len(cleaned) > SnippetMinLength

\* the inner loop of _extract_snippets for one mention: for sentence in
\* sentences: if mention.lower() in sentence.lower(): cleaned =
\* sentence.strip(); if len(cleaned) > 20 and cleaned not in snippets: append
RECURSIVE SnippetsOfMention(_, _, _)
SnippetsOfMention(mention, sentences, snippets) ==
  IF sentences = <<>> THEN snippets
  ELSE LET sentence == sentences[1]
           cleaned == Strip(sentence)
           keep == /\ Contains(StrLower(mention), StrLower(sentence))
                   /\ LongEnough(cleaned)
                   /\ cleaned \notin Range(snippets)
       IN SnippetsOfMention(mention, Tail(sentences),
                            IF keep THEN Append(snippets, cleaned)
                            ELSE snippets)

\* the outer loop of _extract_snippets: for mention in mentions
RECURSIVE SnippetsOfMentions(_, _, _)
SnippetsOfMentions(mentions, sentences, snippets) ==
  IF mentions = <<>> THEN snippets
  ELSE SnippetsOfMentions(Tail(mentions), sentences,
                          SnippetsOfMention(mentions[1], sentences, snippets))

\* _extract_snippets(text, mentions), mentions being a list
ExtractSnippets(text, mentions) ==
  LET snippets == SnippetsOfMentions(mentions, SplitSentences(text), <<>>)
  IN Slice(snippets, 1, Min({SnippetLimit, Len(snippets)}))

\* the orders in which list(set(mentions)) may hold the set's elements
MentionOrders(mentions) ==
  {order \in [1 .. Cardinality(mentions) -> mentions] :
     \A i, j \in DOMAIN order : order[i] = order[j] => i = j}

\* the dict parse returns from its except clause, with no error annotation
ParseError_Unannotated ==
  [citations |-> {}, mentions |-> {}, snippets |-> <<>>, error |-> FALSE]

\* the dict parse returns from its except clause: empty lists and
\* "metadata": {"error": str(e)}
ParseError ==
  [citations |-> {}, mentions |-> {}, snippets |-> <<>>, error |-> TRUE]

\* the dict the try block of parse returns for the words of a text, the
\* list of mentions being in the given order
ParseText(words, mention_list) ==
  [citations |-> ExtractCitations(Join(words)),
   mentions |-> Range(mention_list),
   snippets |-> ExtractSnippets(Join(words), mention_list),
   error |-> FALSE]

\* parse(response_text): the dicts it may return. response_text is an
\* option: a client may return None (a completion without content), on
\* which findall raises TypeError and the except clause returns.
Parse(response_text) ==
  IF response_text = None THEN {ParseError}
  ELSE {ParseText(response_text[1], order) :
          order \in MentionOrders(ExtractMentions(response_text[1]))}

\* what extract_project_mentions returns from its except clause, reached
\* when pattern.search(None) raises; project_name was derived before
ExtractProjectMentionsRaised(project_domain) ==
  [project_name |-> ExtractDomainName(project_domain),
   project_mentions |-> <<>>, competitor_mentions |-> <<>>,
   total_mentions |-> 0]

\* ------------------------------------------------------- bounded inputs
\* the words response texts are made of
wThis == <<"T", "h", "i", "s">>
wTool == <<"t", "o", "o", "l">>
wUse == <<"u", "s", "e">>
wIs == <<"i", "s">>
wA == <<"a">>
wNotionLower == <<"n", "o", "t", "i", "o", "n">>
wNotion == <<"N", "o", "t", "i", "o", "n">>
wAcme == <<"A", "c", "m", "e">>
wGitHub == <<"G", "i", "t", "H", "u", "b">>
wBad == <<"b", "a", "d">>
wInput == <<"i", "n", "p", "u", "t">>

Vocabulary == {wThis, wTool, wUse, wIs, wA, wNotionLower, wNotion, wAcme,
               wGitHub, wBad, wInput}

\* the response texts: every sequence of at most MaxWords words
Texts == UNION {[1 .. n -> Vocabulary] : n \in 0 .. MaxWords}

\* what a client's query returns: a text, or None
Responses == {None} \cup {Some(text) : text \in Texts}

\* Project.domain and Project.competitors values
dAcmeUrl == <<"h", "t", "t", "p", "s", ":", "/", "/", "w", "w", "w", ".", "A", "c", "m", "e", ".", "i", "o", "/", "p", "a", "t", "h">>
dNotionSo == <<"n", "o", "t", "i", "o", "n", ".", "s", "o">>
dAcmeIo == <<"a", "c", "m", "e", ".", "i", "o">>
dBadInput == <<"b", "a", "d", " ", "i", "n", "p", "u", "t">>

\* a placeholder that carries a domain
DefaultProject_WithDomain ==
  [name |-> "Unknown Project", domain |-> Some(<<"i", "s">>),
   competitors |-> <<>>, keywords |-> <<>>]

\* process_session: project_info = {'name': 'Unknown Project',
\* 'domain': None, 'competitors': [], 'keywords': []}
DefaultProject ==
  [name |-> "Unknown Project", domain |-> None,
   competitors |-> <<>>, keywords |-> <<>>]

\* active Project rows as get_project_info returns them
ProjectTable ==
  [p1 |-> [name |-> "Acme", domain |-> Some(dAcmeUrl),
           competitors |-> <<dNotionSo>>, keywords |-> <<>>]]

\* the project_info a pass hands to run_query
ProjectInfo(l) ==
  IF l.project = "Unknown Project" THEN DefaultProject
  ELSE ProjectTable[SessionTable[l.sid].projectId]

\* the project_info values the extraction of one attempt is run with
ExtractionProjects ==
  {DefaultProject, ProjectTable.p1,
   [name |-> "Notion", domain |-> Some(dNotionSo),
    competitors |-> <<dAcmeIo>>, keywords |-> <<>>],
   [name |-> "Bad", domain |-> Some(dBadInput),
    competitors |-> <<dBadInput>>, keywords |-> <<>>]}

\* run_query: all_mentions = list(set(parsed.get("mentions", []) +
\* project_mentions.get("project_mentions", [])))
MergeAllMentions(parsed, project_mentions) ==
  parsed.mentions \cup Range(project_mentions.project_mentions)

\* no attempt is extracting anything
NoExtraction ==
  [pc |-> "none", response |-> None, project_info |-> DefaultProject,
   parsed |-> [citations |-> {}, mentions |-> {}, snippets |-> <<>>,
               error |-> FALSE],
   project_mentions |-> [project_name |-> <<>>, project_mentions |-> <<>>,
                         competitor_mentions |-> <<>>, total_mentions |-> 0],
   all_mentions |-> {}, saved_mentions |-> {}]

\* ----------------------------------------------- models/*_client.py
\* @retry(stop=stop_after_attempt(3),
\*        wait=wait_exponential(multiplier=1, min=4, max=10))
StopAttempts == 3
WaitMultiplier == 1
WaitMin == 4
WaitMax == 10

ClientClasses == {"OpenAIClient", "AnthropicClient"}

\* what a provider call may raise; query logs any of them and re-raises
ProviderErrors == {"RateLimitError", "APIConnectionError", "AuthenticationError"}

\* the provider errors that no retry can cure
TerminalErrors == {"AuthenticationError"}

\* a stop condition with one attempt more
StopAfterAttempt_OneMore(attempt_number) == attempt_number >= StopAttempts + 1

\* stop_after_attempt(3)
StopAfterAttempt(attempt_number) == attempt_number >= StopAttempts

\* wait_exponential(multiplier=1, min=4, max=10) after the failed attempt
\* attempt_number: multiplier * 2 ** (attempt_number - 1), kept within
\* [min, max]
WaitExponential(attempt_number) ==
  LET result == WaitMultiplier * 2 ^ (attempt_number - 1)
  IN Max({WaitMin, Min({result, WaitMax})})

NoClientCall ==
  [pc |-> "idle", client |-> "none", attempt_number |-> 0, calls |-> 0,
   errors |-> <<>>, waits |-> <<>>, result |-> "none"]

\* ------------------------------ parser.py functions applied to arguments
\* the pieces the texts handed to _extract_snippets are made of; a text is
\* its pieces joined by single blanks

\* 'Try Notion for notes' (20 characters), 'Acme is a better tool' (21),
\* 'ok', '.', '!'
SnippetPieces ==
  {<<"T", "r", "y", " ", "N", "o", "t", "i", "o", "n", " ", "f", "o", "r", " ", "n", "o", "t", "e", "s">>,
   <<"A", "c", "m", "e", " ", "i", "s", " ", "a", " ", "b", "e", "t", "t", "e", "r", " ", "t", "o", "o", "l">>,
   <<"o", "k">>, <<".">>, <<"!">>}

SnippetTexts ==
  {Join(pieces) : pieces \in UNION {[1 .. n -> SnippetPieces] : n \in 0 .. MaxWords}}

\* the mention lists handed to _extract_snippets
MentionLists ==
  UNION {[1 .. n -> {wNotionLower, wAcme}] : n \in 0 .. 2}

\* the pieces the texts handed to _extract_citations are made of

\* 'https://notion.so', 'http://acme.io/docs.', '[1]', '(2)',
\* 'Source: docs', 'reference:', a newline, 'see'
CitationPieces ==
  {<<"h", "t", "t", "p", "s", ":", "/", "/", "n", "o", "t", "i", "o", "n", ".", "s", "o">>,
   <<"h", "t", "t", "p", ":", "/", "/", "a", "c", "m", "e", ".", "i", "o", "/", "d", "o", "c", "s", ".">>,
   <<"[", "1", "]">>, <<"(", "2", ")">>,
   <<"S", "o", "u", "r", "c", "e", ":", " ", "d", "o", "c", "s">>,
   <<"r", "e", "f", "e", "r", "e", "n", "c", "e", ":">>,
   <<"\n">>, <<"s", "e", "e">>}

CitationTexts ==
  {Join(pieces) : pieces \in UNION {[1 .. n -> CitationPieces] : n \in 0 .. MaxWords}}

\* a list of strings written out one per line
RECURSIVE JoinLines(_)
JoinLines(lines) ==
  IF lines = <<>> THEN <<>>
  ELSE IF Len(lines) = 1 THEN lines[1]
  ELSE lines[1] \o <<"\n">> \o JoinLines(Tail(lines))

\* no call of _extract_snippets under way
NoSnippetCall ==
  [pc |-> "idle", text |-> <<>>, mentions |-> <<>>, snippets |-> <<>>]

\* no call of _extract_citations under way
NoCitationCall ==
  [pc |-> "idle", text |-> <<>>, citations |-> {}, first |-> {}, round |-> 0]

\* ------------------------------------------------------- prompt_builder.py
\* A prompt is a sequence of pieces of text: the literal lines of the source,
\* the inserted values, and "\n" standing alone for each line break.  A
\* Python value that may be None is None or Some(value); a dictionary key
\* that may be missing holds None when missing and Some(value) when present.

\* "\n".join(parts) and ', '.join(parts), parts being sequences of pieces
RECURSIVE JoinBy(_, _)
JoinBy(parts, sep) ==
  IF parts = <<>> THEN <<>>
  ELSE IF Len(parts) = 1 THEN parts[1]
  ELSE parts[1] \o <<sep>> \o JoinBy(Tail(parts), sep)

\* str(n) of a natural number
RECURSIVE NatStr(_)
NatStr(n) ==
  LET digit == <<"0", "1", "2", "3", "4", "5", "6", "7", "8", "9">>[(n % 10) + 1]
  IN IF n < 10 THEN digit ELSE NatStr(n \div 10) \o digit

\* f"{(presence / total) * 100:.1f}": the percentage to the nearest tenth
Percentage(presence, total) ==
  LET tenths == ((2000 * presence) + total) \div (2 * total)
  IN NatStr(tenths \div 10) \o "." \o NatStr(tenths % 10)

\* f"{value}" of a string or None
Format(value) == IF value = None THEN "None" ELSE value[1]

\* the truth value of a string or None
Truthy(value) == value # None /\ value[1] # ""

\* self.base_instructions.get(prompt_type, self.base_instructions['findability'])
BaseInstructions(prompt_type) ==
  CASE prompt_type = "recommendation" ->
         <<"You are an AI assistant helping users find the best tools and services for their needs.",
           "\n",
           "Provide balanced, informative recommendations based on actual product capabilities and user requirements.">>
    [] prompt_type = "comparison" ->
         <<"You are an AI assistant helping users compare different products and services.",
           "\n",
           "Provide objective comparisons highlighting the strengths and use cases of different options.">>
    [] OTHER ->
         <<"You are an AI assistant helping analyze product findability in search results.",
           "\n",
           "Your goal is to provide accurate, helpful responses about products and services while being aware of market context and competition.">>

TopDomainLimit == 3
CompetitorLimit == 3
KeywordLimit == 5

\* the market presence line written whatever the total
BuildMarketContext_NoTotalTest(market_context) ==
  LET presence == IF market_context.project_presence = None THEN 0
                  ELSE market_context.project_presence[1]
      total == IF market_context.total_results = None THEN 0
               ELSE market_context.total_results[1]
  IN <<"Current market presence: ", NatStr(presence), "/", NatStr(total),
       " results (",
       IF total > 0 THEN Percentage(presence, total) ELSE "0.0", "%)">>

\* _build_market_context: the lines of the market context section
BuildMarketContext(market_context) ==
  LET top == market_context.top_domains
      domains == IF top = None THEN <<>>
                 ELSE [i \in 1 .. Min({TopDomainLimit, Len(top[1])}) |->
                         <<top[1][i][1]>>]
      keys == market_context.competitor_presence
      competitors == IF keys = None THEN <<>>
                     ELSE [i \in 1 .. Min({CompetitorLimit, Len(keys[1])}) |->
                             <<keys[1][i]>>]
      total == IF market_context.total_results = None THEN 0
               ELSE market_context.total_results[1]
      presence == market_context.project_presence
      context_parts ==
        (IF domains # <<>>
           THEN << <<"Leading domains in search results: ">>
                   \o JoinBy(domains, ", ") >>
           ELSE <<>>)
        \o (IF competitors # <<>>
              THEN << <<"Competitors frequently mentioned: ">>
                      \o JoinBy(competitors, ", ") >>
              ELSE <<>>)
        \o (IF presence # None /\ total > 0
              THEN << <<"Current market presence: ", NatStr(presence[1]), "/",
                        NatStr(total), " results (",
                        Percentage(presence[1], total), "%)">> >>
              ELSE <<>>)
  IN JoinBy(context_parts, "\n")

\* _build_project_context: the lines of the product information section
BuildProjectContext(project_info) ==
  LET keywords == project_info.keywords
      context_parts ==
        (IF project_info.name # None
           THEN << <<"Product: ", Format(project_info.name[1])>> >>
           ELSE <<>>)
        \o (IF project_info.oneLiner # None
              THEN << <<"Description: ", Format(project_info.oneLiner[1])>> >>
              ELSE <<>>)
        \o (IF project_info.domain # None /\ Truthy(project_info.domain[1])
              THEN << <<"Website: ", Format(project_info.domain[1])>> >>
              ELSE <<>>)
        \o (IF keywords # None /\ keywords[1] # <<>>
              THEN << <<"Key features: ">>
                      \o JoinBy([i \in 1 .. Min({KeywordLimit, Len(keywords[1])})
                                   |-> <<keywords[1][i]>>], ", ") >>
              ELSE <<>>)
  IN JoinBy(context_parts, "\n")

\* _get_response_instructions
GetResponseInstructions(prompt_type) ==
  CASE prompt_type = "findability" ->
         <<"\n", "RESPONSE GUIDELINES:", "\n",
           "- Provide a helpful, accurate response to the user's query", "\n",
           "- When relevant, mention appropriate products/services that could help", "\n",
           "- Be objective and focus on actual capabilities and use cases", "\n",
           "- Include specific examples or details when possible", "\n",
           "- If the focus product is genuinely relevant, include it naturally in your response", "\n",
           "- Cite sources or provide links when available", "\n">>
    [] prompt_type = "recommendation" ->
         <<"\n", "RESPONSE GUIDELINES:", "\n",
           "- Provide balanced recommendations based on the user's specific needs", "\n",
           "- Consider different options and their strengths", "\n",
           "- Explain why certain options might be better for different use cases", "\n",
           "- Be honest about limitations and trade-offs", "\n",
           "- Include the focus product if it's genuinely suitable for the user's needs", "\n",
           "- Suggest trying multiple options when appropriate", "\n">>
    [] prompt_type = "comparison" ->
         <<"\n", "RESPONSE GUIDELINES:", "\n",
           "- Provide objective comparisons between different options", "\n",
           "- Highlight the unique strengths of each product/service", "\n",
           "- Explain which might be better for different scenarios", "\n",
           "- Be fair and balanced in your assessment", "\n",
           "- Include concrete examples of use cases", "\n",
           "- Help the user understand the key differentiators", "\n">>
    [] OTHER -> <<>>

\* a dictionary none of whose keys is present is empty, hence false
EmptyDict(dict) == \A key \in DOMAIN dict : dict[key] = None

\* build_findability_prompt
BuildFindabilityPrompt(query, project_info, market_context, prompt_type) ==
  LET context_section ==
        IF market_context # None /\ ~EmptyDict(market_context[1])
          THEN BuildMarketContext(market_context[1]) ELSE <<>>
      project_section ==
        IF project_info # None /\ ~EmptyDict(project_info[1])
          THEN BuildProjectContext(project_info[1]) ELSE <<>>
      prompt_parts ==
        <<BaseInstructions(prompt_type)>>
        \o (IF context_section # <<>>
              THEN << <<"\n", "MARKET CONTEXT:", "\n">> \o context_section >>
              ELSE <<>>)
        \o (IF project_section # <<>>
              THEN << <<"\n", "PRODUCT INFORMATION:", "\n">> \o project_section >>
              ELSE <<>>)
        \o << <<"\n", "USER QUERY: ", query>> >>
        \o <<GetResponseInstructions(prompt_type)>>
  IN JoinBy(prompt_parts, "\n")

\* ----------------------------- build_findability_prompt applied to arguments
MaxKeywords == 6

PromptTypes == {"findability", "recommendation", "comparison", "unknown"}

Queries == {"best note taking app"}

KeywordPool ==
  <<"notes", "wiki", "tasks", "docs", "sync", "offline", "search", "share">>

\* project dictionaries, and None
ProjectInfos ==
  {None} \cup
  {Some([name |-> name, oneLiner |-> oneLiner, domain |-> domain,
         keywords |-> keywords]) :
     name \in {None, Some(None), Some(Some("")), Some(Some("Acme"))},
     oneLiner \in {None, Some(None), Some(Some("Notes for teams"))},
     domain \in {None, Some(Some("")), Some(Some("acme.io"))},
     keywords \in {None} \cup
                  {Some(SubSeq(KeywordPool, 1, n)) : n \in 0 .. MaxKeywords}}

\* (domain, count) pairs as analyze_query_context counts them
DomainCounts ==
  << <<"notion.so", 3>>, <<"evernote.com", 2>>, <<"obsidian.md", 1>>,
     <<"acme.io", 1>> >>

\* the keys of competitor_presence in the order they were inserted
CompetitorKeys == <<"Notion", "Evernote", "Obsidian", "Roam">>

\* market context dictionaries, and None
MarketContexts ==
  {None} \cup
  {Some([top_domains |-> top, competitor_presence |-> keys,
         project_presence |-> presence, total_results |-> total]) :
     top \in {None, Some(<<>>), Some(DomainCounts)},
     keys \in {None, Some(<<>>), Some(CompetitorKeys)},
     presence \in {None, Some(1)},
     total \in {None, Some(0), Some(3)}}

\* no call of build_findability_prompt under way
NoPromptCall ==
  [pc |-> "idle", query |-> "", project_info |-> None,
   market_context |-> None, prompt_type |-> "findability", prompt |-> <<>>,
   first |-> <<>>, round |-> 0]

InitRunner ==
  /\ queue = {}
  /\ processing = {}
  /\ session = [s \in Sessions |->
                  [status |-> "QUEUED", startedAt |-> FALSE,
                   completedAt |-> FALSE, errorMessage |-> NULL]]
  /\ runResults = [s \in Sessions |-> 0]
  /\ pc = [p \in Procs |-> IF p \in Workers THEN "poll" ELSE "idle"]
  /\ loc = [p \in Procs |-> InitLoc]
  /\ nEnq = 0
  /\ episodes = [i \in Ids |-> 0]
  /\ pops = [i \in Ids |-> 0]
  /\ returned = [i \in Ids |-> 0]
  /\ lastWeight = [i \in Ids |-> 0]
  /\ passes = [s \in Sessions |-> 0]

\* the state after construction: nothing queued, no attempt and no client
\* call under way
Init ==
  /\ InitRunner
  /\ extraction = NoExtraction
  /\ clientCall = NoClientCall
  /\ snippetCall = NoSnippetCall
  /\ citationCall = NoCitationCall
  /\ promptCall = NoPromptCall

\* queue.py enqueue_session(session_id, priority); a Redis error is re-raised
\* to the caller and leaves everything as it was
EnqueueSession(id, priority) ==
  /\ nEnq < MaxEnqueues
  /\ \/ /\ queue' = ZAdd(queue, id, PriorityScore(priority))
        /\ nEnq' = nEnq + 1
        /\ episodes' = [episodes EXCEPT ![id] =
                          IF id \in Members(queue) THEN @ ELSE @ + 1]
        /\ lastWeight' = [lastWeight EXCEPT ![id] = PriorityScore(priority)]
     \/ UNCHANGED <<queue, nEnq, episodes, lastWeight>>
  /\ UNCHANGED <<extraction, clientCall, callVars>>
  /\ UNCHANGED <<processing, session, runResults, pc, loc, pops,
                 returned, passes>>

\* queue.py get_next_session, first await: zpopmax. An empty result or a
\* Redis error returns None to start_worker, which sleeps 5.
GetNextZPopMax(w) ==
  /\ pc[w] = "poll"
  /\ \/ /\ queue # {}
        /\ \E e \in ZPopMaxChoices(queue) :
             /\ queue' = ZPopRemove(queue, e)
             /\ loc' = [loc EXCEPT ![w].sid = e[1], ![w].score = e[2]]
             /\ pops' = [pops EXCEPT ![e[1]] = @ + 1]
             /\ lastWeight' = [lastWeight EXCEPT ![e[1]] =
                                 IF e[1] \in Members(queue') THEN @ ELSE 0]
        /\ pc' = [pc EXCEPT ![w] = "sadd"]
     \/ /\ pc' = [pc EXCEPT ![w] = "sleep5"]
        /\ UNCHANGED <<queue, loc, pops, lastWeight>>
  /\ UNCHANGED <<extraction, clientCall, callVars>>
  /\ UNCHANGED <<processing, session, runResults, nEnq, episodes,
                 returned, passes>>

\* queue.py get_next_session, second await: sadd, then return session_id;
\* a Redis error here is caught and None is returned
GetNextSAdd(w) ==
  /\ pc[w] = "sadd"
  /\ \/ /\ processing' = SAdd(processing, loc[w].sid)
        /\ returned' = [returned EXCEPT ![loc[w].sid] = @ + 1]
        /\ pc' = [pc EXCEPT ![w] = "get_session"]
        /\ loc' = [loc EXCEPT ![w].score = 0]
     \/ /\ pc' = [pc EXCEPT ![w] = "sleep5"]
        /\ loc' = [loc EXCEPT ![w] = InitLoc]
        /\ UNCHANGED <<processing, returned>>
  /\ UNCHANGED <<extraction, clientCall, callVars>>
  /\ UNCHANGED <<queue, session, runResults, nEnq, episodes, pops,
                 lastWeight, passes>>

\* main.py start_worker: asyncio.sleep(5) / asyncio.sleep(10) is over
Wake(w) ==
  /\ pc[w] \in {"sleep5", "sleep10"}
  /\ pc' = [pc EXCEPT ![w] = "poll"]
  /\ UNCHANGED <<extraction, clientCall, callVars>>
  /\ UNCHANGED <<queue, processing, session, runResults, loc, nEnq,
                 episodes, pops, returned, lastWeight, passes>>

\* api.py POST /sessions/{session_id}/process:
\* background_tasks.add_task(runner.process_session, session_id)
DirectProcess(p, id) ==
  /\ pc[p] = "idle"
  /\ pc' = [pc EXCEPT ![p] = "get_session"]
  /\ loc' = [loc EXCEPT ![p] = [InitLoc EXCEPT !.sid = id]]
  /\ UNCHANGED <<extraction, clientCall, callVars>>
  /\ UNCHANGED <<queue, processing, session, runResults, nEnq, episodes,
                 pops, returned, lastWeight, passes>>

\* ----------------------------------------------- main.py process_session
\* where process_session goes once run_query has returned for query qi
AfterQuery(l, qi) ==
  LET md == Metadata(l.sid)
  IN IF qi < Len(md.queries)
     THEN [pcv |-> "run_query",
           l |-> [l EXCEPT !.qi = qi + 1, !.mi = 0, !.ri = 0,
                           !.market = "unset", !.analysis = "unset",
                           !.issued = <<>>, !.steps = <<>>]]
     ELSE [pcv |-> "set_completed",
           l |-> [l EXCEPT !.mi = 0, !.ri = 0,
                           !.market = "unset", !.analysis = "unset",
                           !.issued = <<>>, !.steps = <<>>]]

\* where run_query goes from model index mi: the next configured model's
\* first run, or back to process_session
EnterModel(l, mi) ==
  LET md == Metadata(l.sid)
      nm == NextModel(md.models, md.runCount, mi)
  IN IF nm = 0
     THEN AfterQuery(l, l.qi)
     ELSE [pcv |-> "attempt", l |-> [l EXCEPT !.mi = nm, !.ri = 0]]

\* a run loop that gives up on a model after its first failed call (break)
AfterAttempt_Break(l) ==
  LET md == Metadata(l.sid)
  IN IF l.ri + 1 \in RunRange(md.runCount) /\ l.last # "client_fail"
     THEN [pcv |-> "attempt", l |-> [l EXCEPT !.ri = l.ri + 1]]
     ELSE EnterModel(l, l.mi + 1)

\* where run_query goes after the attempt (mi, ri), whatever its outcome:
\* the except clause of the attempt only logs
AfterAttempt(l) ==
  LET md == Metadata(l.sid)
  IN IF l.ri + 1 \in RunRange(md.runCount)
     THEN [pcv |-> "attempt", l |-> [l EXCEPT !.ri = l.ri + 1]]
     ELSE EnterModel(l, l.mi + 1)

\* a process_session without the "if not session: return" check: the None
\* session makes session.get(...) raise, and the except clause runs
GetSession_NoneUnchecked(p) ==
  /\ pc[p] = "get_session"
  /\ \/ /\ loc[p].sid \in Sessions
        /\ pc' = [pc EXCEPT ![p] = "set_running"]
        /\ passes' = [passes EXCEPT ![loc[p].sid] = @ + 1]
        /\ UNCHANGED loc
     \/ /\ loc[p].sid \notin Sessions
        /\ pc' = [pc EXCEPT ![p] = "except"]
        /\ loc' = [loc EXCEPT ![p].exc = "session is None"]
        /\ UNCHANGED passes
     \/ /\ pc' = [pc EXCEPT ![p] = "except"]
        /\ loc' = [loc EXCEPT ![p].exc = "get_session failed"]
        /\ UNCHANGED passes
  /\ UNCHANGED <<extraction, clientCall, callVars>>
  /\ UNCHANGED <<queue, processing, session, runResults, nEnq,
                 episodes, pops, returned, lastWeight>>

\* session = await self.db.get_session(session_id); if not session: return
GetSession(p) ==
  /\ pc[p] = "get_session"
  /\ \/ /\ loc[p].sid \in Sessions
        /\ pc' = [pc EXCEPT ![p] = "set_running"]
        /\ passes' = [passes EXCEPT ![loc[p].sid] = @ + 1]
        /\ UNCHANGED loc
     \/ /\ loc[p].sid \notin Sessions
        /\ pc' = [pc EXCEPT ![p] = "done"]
        /\ UNCHANGED <<loc, passes>>
     \/ /\ pc' = [pc EXCEPT ![p] = "except"]
        /\ loc' = [loc EXCEPT ![p].exc = "get_session failed"]
        /\ UNCHANGED passes
  /\ UNCHANGED <<extraction, clientCall, callVars>>
  /\ UNCHANGED <<queue, processing, session, runResults, nEnq,
                 episodes, pops, returned, lastWeight>>

\* await self.db.update_session_status(session_id, "running")
SetRunning(p) ==
  /\ pc[p] = "set_running"
  /\ \/ /\ session' = [session EXCEPT ![loc[p].sid] =
                         UpdateSessionStatus(@, "running", NULL)]
        /\ loc' = [loc EXCEPT ![p].writes = Append(@, Upper("running"))]
        /\ pc' = [pc EXCEPT ![p] = "get_project"]
     \/ /\ pc' = [pc EXCEPT ![p] = "except"]
        /\ loc' = [loc EXCEPT ![p].exc = "update_session_status failed"]
        /\ UNCHANGED session
  /\ UNCHANGED <<extraction, clientCall, callVars>>
  /\ UNCHANGED <<queue, processing, runResults, nEnq, episodes,
                 pops, returned, lastWeight, passes>>

\* project_info = await self.db.get_project_info(project_id), defaulted when
\* absent; then the for loop over queries starts
GetProjectInfo(p) ==
  /\ pc[p] = "get_project"
  /\ \/ LET found == SessionTable[loc[p].sid].projectId \in Projects
            l1 == [loc[p] EXCEPT !.project =
                      IF found THEN "found" ELSE "Unknown Project"]
            nxt == IF Len(Metadata(l1.sid).queries) = 0
                   THEN [pcv |-> "set_completed", l |-> l1]
                   ELSE [pcv |-> "run_query", l |-> [l1 EXCEPT !.qi = 1]]
        IN /\ pc' = [pc EXCEPT ![p] = nxt.pcv]
           /\ loc' = [loc EXCEPT ![p] = nxt.l]
     \/ /\ pc' = [pc EXCEPT ![p] = "except"]
        /\ loc' = [loc EXCEPT ![p].exc = "get_project_info failed"]
  /\ UNCHANGED <<extraction, clientCall, callVars>>
  /\ UNCHANGED <<queue, processing, session, runResults, nEnq,
                 episodes, pops, returned, lastWeight, passes>>

\* what analyze_query_context does when run_query calls it: it returns its
\* analysis dict or raises
AnalyzeOutcomes == {"analysis", "raises"}

\* a run_query without the try/except around the provider call would have
\* no market_context to go on with; here the raised call counts as context
MarketContext_FromRaise(outcome) == "context"

\* market_context = None; try: market_context = await
\* self.serp_analyzer.analyze_query_context(query, project_info)
\* except Exception: (logged) -- the value run_query goes on with
MarketContext(outcome) ==
  IF outcome = "raises" THEN "absent" ELSE "context"

\* run_query entry: results = [], market_context = analyze_query_context(...)
\* inside its own try/except, then the for loop over models starts
RunQuery(p) ==
  /\ pc[p] = "run_query"
  /\ \E outcome \in AnalyzeOutcomes :
       LET l1 == [loc[p] EXCEPT !.market = MarketContext(outcome),
                                !.analysis = outcome,
                                !.provider = @ + 1,
                                !.issued = <<>>,
                                !.results = <<>>,
                                !.steps = <<>>,
                                !.queriesRun = @ \cup {loc[p].qi}]
           nxt == EnterModel(l1, 1)
       IN /\ pc' = [pc EXCEPT ![p] = nxt.pcv]
          /\ loc' = [loc EXCEPT ![p] = nxt.l]
  /\ UNCHANGED <<extraction, clientCall, callVars>>
  /\ UNCHANGED <<queue, processing, session, runResults, nEnq,
                 episodes, pops, returned, lastWeight, passes>>

\* a try block that saves before it extracts
AttemptSteps_SaveFirst(out) ==
  <<"build_findability_prompt", "client.query"
  >> \o (IF out = "client_fail" THEN <<>>
         ELSE <<"save_run_result", "parse", "extract_project_mentions">>)
     \o (IF out \in {"ok", "parse_fail"} THEN <<"results.append">> ELSE <<>>)

\* the statements of the inner try block of run_query that one attempt
\* executes, in the order of the source: a failed client call leaves the
\* block at client.query, a failed save at save_run_result; parse and
\* extract_project_mentions catch their own exceptions
AttemptSteps(out) ==
  <<"build_findability_prompt", "client.query"
  >> \o (IF out = "client_fail" THEN <<>>
         ELSE <<"parse", "extract_project_mentions", "save_run_result">>)
     \o (IF out \in {"ok", "parse_fail"} THEN <<"results.append">> ELSE <<>>)

\* a run_query without the try/except around the attempt: the first
\* exception of a client call or of a save leaves run_query and lands in the
\* except clause of process_session
Attempt_Propagates(p, outcomes) ==
  /\ pc[p] = "attempt"
  /\ \E out \in outcomes :
       LET l0 == loc[p]
           stored == out \in {"ok", "parse_fail"}
           l1 == [l0 EXCEPT
                    !.calls = @ \cup {<<l0.qi, l0.mi, l0.ri>>},
                    !.issued = Append(@, <<l0.mi, l0.ri, l0.market>>),
                    !.steps = AttemptSteps(out),
                    !.results = IF stored THEN Append(@, <<l0.mi, l0.ri>>)
                                ELSE @,
                    !.last = out,
                    !.lastSaved = stored,
                    !.saved = IF stored THEN @ + 1 ELSE @,
                    !.clientFailed = @ \/ (out = "client_fail"),
                    !.saveFailed = @ \/ (out = "save_fail"),
                    !.exc = IF stored THEN @ ELSE out]
           nxt == IF stored THEN AfterAttempt(l1)
                  ELSE [pcv |-> "except", l |-> l1]
       IN /\ pc' = [pc EXCEPT ![p] = nxt.pcv]
          /\ loc' = [loc EXCEPT ![p] = nxt.l]
          /\ runResults' = [runResults EXCEPT ![l0.sid] =
                              IF stored THEN @ + 1 ELSE @]
  /\ UNCHANGED <<extraction, clientCall, callVars>>
  /\ UNCHANGED <<queue, processing, session, nEnq, episodes, pops,
                 returned, lastWeight, passes>>

\* a parse() without its try/except: a parse error skips the save
Attempt_ParseRaises(p, outcomes) ==
  /\ pc[p] = "attempt"
  /\ \E out \in outcomes :
       LET l0 == loc[p]
           stored == out = "ok"
           l1 == [l0 EXCEPT
                    !.calls = @ \cup {<<l0.qi, l0.mi, l0.ri>>},
                    !.issued = Append(@, <<l0.mi, l0.ri, l0.market>>),
                    !.steps = AttemptSteps(out),
                    !.results = IF stored THEN Append(@, <<l0.mi, l0.ri>>)
                                ELSE @,
                    !.last = out,
                    !.lastSaved = stored,
                    !.saved = IF stored THEN @ + 1 ELSE @,
                    !.clientFailed = @ \/ (out = "client_fail"),
                    !.saveFailed = @ \/ (out = "save_fail")]
           nxt == AfterAttempt(l1)
       IN /\ pc' = [pc EXCEPT ![p] = nxt.pcv]
          /\ loc' = [loc EXCEPT ![p] = nxt.l]
          /\ runResults' = [runResults EXCEPT ![l0.sid] =
                              IF stored THEN @ + 1 ELSE @]
  /\ UNCHANGED <<extraction, clientCall, callVars>>
  /\ UNCHANGED <<queue, processing, session, nEnq, episodes, pops,
                 returned, lastWeight, passes>>

\* one pass of the inner try block of run_query: build prompt, client.query,
\* parse (its own try/except), extract_project_mentions (its own
\* try/except), save_run_result; any exception is logged by the except
\* clause and the loop goes on
Attempt(p, outcomes) ==
  /\ pc[p] = "attempt"
  /\ \E out \in outcomes :
       LET l0 == loc[p]
           stored == out \in {"ok", "parse_fail"}
           l1 == [l0 EXCEPT
                    !.calls = @ \cup {<<l0.qi, l0.mi, l0.ri>>},
                    !.issued = Append(@, <<l0.mi, l0.ri, l0.market>>),
                    !.steps = AttemptSteps(out),
                    !.results = IF stored THEN Append(@, <<l0.mi, l0.ri>>)
                                ELSE @,
                    !.last = out,
                    !.lastSaved = stored,
                    !.saved = IF stored THEN @ + 1 ELSE @,
                    !.clientFailed = @ \/ (out = "client_fail"),
                    !.saveFailed = @ \/ (out = "save_fail")]
           nxt == AfterAttempt(l1)
       IN /\ pc' = [pc EXCEPT ![p] = nxt.pcv]
          /\ loc' = [loc EXCEPT ![p] = nxt.l]
          /\ runResults' = [runResults EXCEPT ![l0.sid] =
                              IF stored THEN @ + 1 ELSE @]
  /\ UNCHANGED <<extraction, clientCall, callVars>>
  /\ UNCHANGED <<queue, processing, session, nEnq, episodes, pops,
                 returned, lastWeight, passes>>

\* a process_session whose statement after the COMPLETED write raises, so
\* the except clause runs after COMPLETED is stored
SetCompleted_ThenExcept(p) ==
  /\ pc[p] = "set_completed"
  /\ session' = [session EXCEPT ![loc[p].sid] =
                   UpdateSessionStatus(@, "completed", NULL)]
  /\ loc' = [loc EXCEPT ![p].writes = Append(@, Upper("completed")),
                        ![p].exc = "update_session_status failed"]
  /\ pc' = [pc EXCEPT ![p] = "except"]
  /\ UNCHANGED <<extraction, clientCall, callVars>>
  /\ UNCHANGED <<queue, processing, runResults, nEnq, episodes,
                 pops, returned, lastWeight, passes>>

\* await self.db.update_session_status(session_id, "completed")
SetCompleted(p) ==
  /\ pc[p] = "set_completed"
  /\ \/ /\ session' = [session EXCEPT ![loc[p].sid] =
                         UpdateSessionStatus(@, "completed", NULL)]
        /\ loc' = [loc EXCEPT ![p].writes = Append(@, Upper("completed"))]
        /\ pc' = [pc EXCEPT ![p] = "done"]
     \/ /\ pc' = [pc EXCEPT ![p] = "except"]
        /\ loc' = [loc EXCEPT ![p].exc = "update_session_status failed"]
        /\ UNCHANGED session
  /\ UNCHANGED <<extraction, clientCall, callVars>>
  /\ UNCHANGED <<queue, processing, runResults, nEnq, episodes,
                 pops, returned, lastWeight, passes>>

\* except Exception as e: await self.db.update_session_status(session_id,
\* "failed") -- error_message keeps its default None; if this call raises
\* too the exception leaves process_session. The UPDATE matches no row when
\* the id has no RunSession row.
SetFailed(p) ==
  /\ pc[p] = "except"
  /\ \/ /\ session' = [s \in Sessions |->
                         IF s = loc[p].sid
                         THEN UpdateSessionStatus(session[s], "failed", NULL)
                         ELSE session[s]]
        /\ loc' = [loc EXCEPT ![p].writes =
                     IF loc[p].sid \in Sessions
                     THEN Append(@, Upper("failed")) ELSE @]
        /\ pc' = [pc EXCEPT ![p] = "done"]
     \/ /\ pc' = [pc EXCEPT ![p] = "raised"]
        /\ UNCHANGED <<session, loc>>
  /\ UNCHANGED <<extraction, clientCall, callVars>>
  /\ UNCHANGED <<queue, processing, runResults, nEnq, episodes,
                 pops, returned, lastWeight, passes>>

\* a start_worker without its except clause: an exception that leaves
\* process_session ends the loop
Return_Reraises(p) ==
  /\ pc[p] \in {"done", "raised"}
  /\ pc' = [pc EXCEPT ![p] = IF p \in Direct THEN "ended"
                             ELSE IF pc[p] = "raised" THEN "stopped"
                             ELSE "poll"]
  /\ loc' = [loc EXCEPT ![p] = InitLoc]
  /\ UNCHANGED <<extraction, clientCall, callVars>>
  /\ UNCHANGED <<queue, processing, session, runResults, nEnq,
                 episodes, pops, returned, lastWeight, passes>>

\* process_session is over. start_worker polls again at once after a normal
\* return and sleeps 10 after an exception; a background task has ended.
Return(p) ==
  /\ pc[p] \in {"done", "raised"}
  /\ pc' = [pc EXCEPT ![p] = IF p \in Direct THEN "ended"
                             ELSE IF pc[p] = "raised" THEN "sleep10"
                             ELSE "poll"]
  /\ loc' = [loc EXCEPT ![p] = InitLoc]
  /\ UNCHANGED <<extraction, clientCall, callVars>>
  /\ UNCHANGED <<queue, processing, session, runResults, nEnq,
                 episodes, pops, returned, lastWeight, passes>>

\* ------------------------------------- run_query: one attempt's extraction
\* parsed = self.parser.parse(response)
ParseResponse ==
  /\ extraction.pc = "response"
  /\ \E parsed \in Parse(extraction.response) :
       extraction' = [extraction EXCEPT !.pc = "parsed", !.parsed = parsed]
  /\ UNCHANGED <<runnerVars, clientCall, callVars>>

\* project_mentions = self.parser.extract_project_mentions(response,
\*   project_info.get('domain', ''), project_info.get('competitors', []))
ExtractProject ==
  /\ extraction.pc = "parsed"
  /\ extraction' = [extraction EXCEPT
                      !.pc = "projected",
                      !.project_mentions =
                         IF extraction.response = None
                         THEN ExtractProjectMentionsRaised(
                                extraction.project_info.domain)
                         ELSE ExtractProjectMentions(
                                extraction.response[1],
                                extraction.project_info.domain,
                                extraction.project_info.competitors)]
  /\ UNCHANGED <<runnerVars, clientCall, callVars>>

\* all_mentions = list(set(...))
MergeMentions ==
  /\ extraction.pc = "projected"
  /\ extraction' = [extraction EXCEPT
                      !.pc = "merged",
                      !.all_mentions = MergeAllMentions(extraction.parsed,
                                                        extraction.project_mentions)]
  /\ UNCHANGED <<runnerVars, clientCall, callVars>>

\* await self.db.save_run_result(..., mentions=all_mentions, ...): the row
\* stores json.dumps(mentions); the call may raise
SaveRunResult ==
  /\ extraction.pc = "merged"
  /\ \/ extraction' = [extraction EXCEPT !.pc = "saved",
                                         !.saved_mentions = extraction.all_mentions]
     \/ extraction' = [extraction EXCEPT !.pc = "save_failed"]
  /\ UNCHANGED <<runnerVars, clientCall, callVars>>

\* --------------------------------------------- parser.py _extract_snippets
\* snippets = self._extract_snippets(text, mentions)
ExtractSnippetsCall ==
  /\ snippetCall.pc = "args"
  /\ snippetCall' = [snippetCall EXCEPT
                       !.pc = "returned",
                       !.snippets = ExtractSnippets(snippetCall.text,
                                                    snippetCall.mentions)]
  /\ UNCHANGED <<runnerVars, extraction, clientCall, citationCall, promptCall>>

\* -------------------------------------------- parser.py _extract_citations
\* citations = self._extract_citations(text)
ExtractCitationsCall ==
  /\ citationCall.pc = "args"
  /\ citationCall' = [citationCall EXCEPT
                        !.pc = "returned",
                        !.citations = ExtractCitations(citationCall.text),
                        !.first = IF citationCall.round = 1
                                  THEN ExtractCitations(citationCall.text)
                                  ELSE @]
  /\ UNCHANGED <<runnerVars, extraction, clientCall, snippetCall, promptCall>>

\* the list _extract_citations returned, in the order list(set(..)) gave
\* it, is written out one citation per line and handed to
\* _extract_citations again
ReapplyCitations ==
  /\ citationCall.pc = "returned" /\ citationCall.round = 1
  /\ \E order \in MentionOrders(citationCall.citations) :
       citationCall' = [citationCall EXCEPT !.pc = "args", !.round = 2,
                                            !.text = JoinLines(order)]
  /\ UNCHANGED <<runnerVars, extraction, clientCall, snippetCall, promptCall>>

\* --------------------------------------------- models/*_client.py query
\* response = await client.query(enhanced_prompt): the first attempt starts
ClientQuery(client) ==
  /\ clientCall.pc = "idle"
  /\ clientCall' = [NoClientCall EXCEPT !.pc = "call", !.client = client,
                                        !.attempt_number = 1]
  /\ UNCHANGED <<runnerVars, extraction, callVars>>

\* one execution of the body of query: the provider call returns a
\* response, or raises; the except clause logs and re-raises, and the retry
\* decorator either gives up or waits
ProviderCall ==
  /\ clientCall.pc = "call"
  /\ \/ clientCall' = [clientCall EXCEPT !.pc = "returned",
                                         !.calls = @ + 1,
                                         !.result = "response"]
     \/ \E e \in ProviderErrors :
          clientCall' =
            IF StopAfterAttempt(clientCall.attempt_number)
            THEN [clientCall EXCEPT !.pc = "raised", !.calls = @ + 1,
                                    !.errors = Append(@, e),
                                    !.result = "RetryError"]
            ELSE [clientCall EXCEPT !.pc = "wait", !.calls = @ + 1,
                                    !.errors = Append(@, e),
                                    !.waits = Append(@,
                                       WaitExponential(clientCall.attempt_number))]
  /\ UNCHANGED <<runnerVars, extraction, callVars>>

\* the wait of the retry decorator is over: next attempt
RetrySleep ==
  /\ clientCall.pc = "wait"
  /\ clientCall' = [clientCall EXCEPT !.pc = "call", !.attempt_number = @ + 1]
  /\ UNCHANGED <<runnerVars, extraction, callVars>>

\* run_query has the response, or the exception, of client.query
ClientDone ==
  /\ clientCall.pc \in {"returned", "raised"}
  /\ clientCall' = NoClientCall
  /\ UNCHANGED <<runnerVars, extraction, callVars>>

\* the worker system: the API enqueues sessions, two workers poll the queue
\* and process what they dequeue
Next ==
  \/ \E id \in SystemIds, priority \in Priorities : EnqueueSession(id, priority)
  \/ \E w \in Workers : GetNextZPopMax(w)
  \/ \E w \in Workers : GetNextSAdd(w)
  \/ \E w \in Workers : Wake(w)
  \/ \E w \in Workers : GetSession(w)
  \/ \E w \in Workers : SetRunning(w)
  \/ \E w \in Workers : GetProjectInfo(w)
  \/ \E w \in Workers : RunQuery(w)
  \/ \E w \in Workers : Attempt(w, Outcomes)
  \/ \E w \in Workers : SetCompleted(w)
  \/ \E w \in Workers : SetFailed(w)
  \/ \E w \in Workers : Return(w)

Spec == Init /\ [][Next]_vars

\* the API next to one worker: sessions are enqueued, and a background pass
\* started by POST /sessions/{id}/process runs while the worker polls
NextApi ==
  \/ \E id \in ApiIds, priority \in Priorities : EnqueueSession(id, priority)
  \/ \E p \in Direct, id \in ApiIds : DirectProcess(p, id)
  \/ \E w \in ApiWorkers : GetNextZPopMax(w)
  \/ \E w \in ApiWorkers : GetNextSAdd(w)
  \/ \E w \in ApiWorkers : Wake(w)
  \/ \E p \in ApiWorkers \cup Direct : GetSession(p)
  \/ \E p \in ApiWorkers \cup Direct : SetRunning(p)
  \/ \E p \in ApiWorkers \cup Direct : GetProjectInfo(p)
  \/ \E p \in ApiWorkers \cup Direct : RunQuery(p)
  \/ \E p \in ApiWorkers \cup Direct : Attempt(p, Outcomes)
  \/ \E p \in ApiWorkers \cup Direct : SetCompleted(p)
  \/ \E p \in ApiWorkers \cup Direct : SetFailed(p)
  \/ \E p \in ApiWorkers \cup Direct : Return(p)

SpecApi == Init /\ [][NextApi]_vars

\* one process_session pass started by the API, over any session and with
\* every outcome of every attempt
NextPass ==
  \/ \E p \in Direct, id \in Ids : DirectProcess(p, id)
  \/ \E p \in Direct : GetSession(p)
  \/ \E p \in Direct : SetRunning(p)
  \/ \E p \in Direct : GetProjectInfo(p)
  \/ \E p \in Direct : RunQuery(p)
  \/ \E p \in Direct : Attempt(p, Outcomes)
  \/ \E p \in Direct : SetCompleted(p)
  \/ \E p \in Direct : SetFailed(p)
  \/ \E p \in Direct : Return(p)

SpecPass == Init /\ [][NextPass]_vars

\* the extraction of one attempt, for every response text and project_info
InitExtract ==
  /\ InitRunner
  /\ clientCall = NoClientCall
  /\ snippetCall = NoSnippetCall
  /\ citationCall = NoCitationCall
  /\ promptCall = NoPromptCall
  /\ \E response \in Responses, info \in ExtractionProjects :
       extraction = [NoExtraction EXCEPT !.pc = "response",
                                         !.response = response,
                                         !.project_info = info]

NextExtract ==
  \/ ParseResponse
  \/ ExtractProject
  \/ MergeMentions
  \/ SaveRunResult

SpecExtract == InitExtract /\ [][NextExtract]_vars

\* _extract_snippets applied to a text and a list of mentions
InitSnippets ==
  /\ InitRunner
  /\ extraction = NoExtraction
  /\ clientCall = NoClientCall
  /\ citationCall = NoCitationCall
  /\ promptCall = NoPromptCall
  /\ \E text \in SnippetTexts, mentions \in MentionLists :
       snippetCall = [NoSnippetCall EXCEPT !.pc = "args", !.text = text,
                                           !.mentions = mentions]

NextSnippets == ExtractSnippetsCall

SpecSnippets == InitSnippets /\ [][NextSnippets]_vars

\* _extract_citations applied to a text, then to its own output
InitCitations ==
  /\ InitRunner
  /\ extraction = NoExtraction
  /\ clientCall = NoClientCall
  /\ snippetCall = NoSnippetCall
  /\ promptCall = NoPromptCall
  /\ \E text \in CitationTexts :
       citationCall = [NoCitationCall EXCEPT !.pc = "args", !.text = text,
                                             !.round = 1]

NextCitations ==
  \/ ExtractCitationsCall
  \/ ReapplyCitations

SpecCitations == InitCitations /\ [][NextCitations]_vars

\* build_findability_prompt applied to its arguments
BuildFindabilityPromptCall ==
  /\ promptCall.pc = "args"
  /\ LET prompt == BuildFindabilityPrompt(promptCall.query,
                                          promptCall.project_info,
                                          promptCall.market_context,
                                          promptCall.prompt_type)
     IN promptCall' = [promptCall EXCEPT
                         !.pc = "returned",
                         !.prompt = prompt,
                         !.first = IF promptCall.round = 1 THEN prompt ELSE @]
  /\ UNCHANGED <<runnerVars, extraction, clientCall, snippetCall, citationCall>>

\* the same arguments handed to build_findability_prompt once more
RebuildPrompt ==
  /\ promptCall.pc = "returned"
  /\ promptCall.round = 1
  /\ promptCall' = [promptCall EXCEPT !.pc = "args", !.round = 2,
                                      !.prompt = <<>>]
  /\ UNCHANGED <<runnerVars, extraction, clientCall, snippetCall, citationCall>>

InitPrompt ==
  /\ InitRunner
  /\ extraction = NoExtraction
  /\ clientCall = NoClientCall
  /\ snippetCall = NoSnippetCall
  /\ citationCall = NoCitationCall
  /\ \E query \in Queries, project_info \in ProjectInfos,
        market_context \in MarketContexts, prompt_type \in PromptTypes :
       promptCall = [NoPromptCall EXCEPT !.pc = "args", !.query = query,
                                         !.project_info = project_info,
                                         !.market_context = market_context,
                                         !.prompt_type = prompt_type,
                                         !.round = 1]

NextPrompt ==
  \/ BuildFindabilityPromptCall
  \/ RebuildPrompt

SpecPrompt == InitPrompt /\ [][NextPrompt]_vars

\* invocations of client.query, one after the other
NextClient ==
  \/ \E client \in ClientClasses : ClientQuery(client)
  \/ ProviderCall
  \/ RetrySleep
  \/ ClientDone

SpecClient == Init /\ [][NextClient]_vars

TypeOK ==
  /\ \A e \in queue : e[1] \in Ids /\ e[2] \in {1, 5, 10}
  /\ processing \subseteq Ids
  /\ \A s \in Sessions : session[s].status \in
       {"QUEUED", "RUNNING", "COMPLETED", "FAILED"}
  /\ extraction.pc \in {"none", "response", "parsed", "projected", "merged",
                       "saved", "save_failed"}
  /\ clientCall.pc \in {"idle", "call", "wait", "returned", "raised"}

\* ------------------------------------------------------------ properties
Terminal == {"COMPLETED", "FAILED"}

\* N * M * R of a session: declared queries, declared models that have a
\* client, run count
ConfiguredModels(sid) ==
  {m \in 1 .. Len(Metadata(sid).models) : Metadata(sid).models[m] \in Clients}

NMR(sid) ==
  Len(Metadata(sid).queries) * Cardinality(ConfiguredModels(sid))
    * Metadata(sid).runCount

\* a pass over an existing session
OnSession(p) == InPass(p) /\ loc[p].sid \in Sessions

\* worker w is between the return of get_next_session and the end of
\* process_session
Holding(w) == pc[w] \in {"get_session", "set_running", "get_project",
                         "run_query", "attempt", "set_completed", "except"}

\* C1 as stated: in every pass a terminal status is written only after
\* RUNNING was written in that pass, and nothing is written after a terminal
\* status.
C1_TerminalOnlyAfterRunning ==
  \A p \in Procs : OnSession(p) =>
    LET ws == loc[p].writes
    IN \A i \in 1 .. Len(ws) : ws[i] \in Terminal =>
         /\ \E j \in 1 .. (i - 1) : ws[j] = "RUNNING"
         /\ i = Len(ws)

\* C1 amended: in every pass RUNNING is written at most once and first,
\* COMPLETED only after RUNNING, nothing after a terminal status; FAILED is
\* written without RUNNING only when loading the session or the RUNNING
\* write itself raised.
C1_StatusWritesOrdered ==
  \A p \in Procs : OnSession(p) =>
    LET ws == loc[p].writes
    IN /\ \A i \in 1 .. Len(ws) :
            /\ ws[i] \in {"RUNNING", "COMPLETED", "FAILED"}
            /\ ws[i] = "RUNNING" => i = 1
            /\ ws[i] = "COMPLETED" => i = 2 /\ ws[1] = "RUNNING"
            /\ ws[i] \in Terminal => i = Len(ws)
       /\ ws = <<"FAILED">> =>
            loc[p].exc \in {"get_session failed", "update_session_status failed"}

\* C1 witnesses: a pass that failed before RUNNING was written
C1_Witness ==
  \E p \in Procs : pc[p] = "done" /\ loc[p].sid \in Sessions
                   /\ loc[p].writes = <<"FAILED">>

\* C2 as stated: COMPLETED is written only after run_query ran for every
\* query and a client call was issued for every declared model and run.
C2_EveryDeclaredModelCalled ==
  \A p \in Procs : (OnSession(p) /\ "COMPLETED" \in
                      {loc[p].writes[i] : i \in 1 .. Len(loc[p].writes)}) =>
    LET md == Metadata(loc[p].sid)
    IN /\ loc[p].queriesRun = 1 .. Len(md.queries)
       /\ \A q \in 1 .. Len(md.queries), m \in 1 .. Len(md.models),
             r \in 0 .. (md.runCount - 1) : <<q, m, r>> \in loc[p].calls

\* C2 amended: COMPLETED is written only after run_query ran for every query
\* and a client call was issued for every declared model that has a client
\* and every run index 0..runCount-1; declared models without a client get no
\* call.
C2_EveryConfiguredModelCalled ==
  \A p \in Procs : (OnSession(p) /\ "COMPLETED" \in
                      {loc[p].writes[i] : i \in 1 .. Len(loc[p].writes)}) =>
    LET md == Metadata(loc[p].sid)
    IN /\ loc[p].queriesRun = 1 .. Len(md.queries)
       /\ \A q \in 1 .. Len(md.queries), m \in ConfiguredModels(loc[p].sid),
             r \in 0 .. (md.runCount - 1) : <<q, m, r>> \in loc[p].calls
       /\ \A c \in loc[p].calls : c[2] \in ConfiguredModels(loc[p].sid)

\* C2 witness: the large session completed although some client calls failed
C2_Witness ==
  \E p \in Procs : /\ pc[p] = "done" /\ loc[p].sid = "s3"
                   /\ loc[p].writes = <<"RUNNING", "COMPLETED">>
                   /\ loc[p].clientFailed
                   /\ Cardinality(loc[p].calls) = 8

\* C3 as stated: in every reachable state a session has at most N*M*R
\* RunResults.
C3_AtMostNMR ==
  \A s \in Sessions : runResults[s] <= NMR(s)

\* C3 amended: one pass persists at most N*M*R RunResults (M counting the
\* declared models that have a client), and a session has at most N*M*R
\* RunResults per pass started for it.
C3_AtMostNMRPerPass ==
  /\ \A p \in Procs : OnSession(p) => loc[p].saved <= NMR(loc[p].sid)
  /\ \A s \in Sessions : runResults[s] <= passes[s] * NMR(s)

\* C3 witness: two passes over s1 each persisted N*M*R results
C3_Witness ==
  passes["s1"] = 2 /\ runResults["s1"] = 2 * NMR("s1")

\* C4 as stated: when every client call of a pass succeeded, exactly N*M*R
\* RunResults are persisted by the time COMPLETED is written.
C4_ExactWhenCallsSucceed ==
  \A p \in Procs : (OnSession(p) /\ loc[p].writes = <<"RUNNING", "COMPLETED">>
                    /\ ~loc[p].clientFailed) =>
    loc[p].saved = NMR(loc[p].sid)

\* C4 amended: when every client call and every save_run_result of a pass
\* succeeded, the pass has persisted exactly N*M*R RunResults by the time
\* COMPLETED is written.
C4_ExactWhenCallsAndSavesSucceed ==
  \A p \in Procs : (OnSession(p) /\ loc[p].writes = <<"RUNNING", "COMPLETED">>
                    /\ ~loc[p].clientFailed /\ ~loc[p].saveFailed) =>
    /\ loc[p].saved = NMR(loc[p].sid)
    /\ runResults[loc[p].sid] >= NMR(loc[p].sid)

\* C4 witness: the large session completed with all 8 results
C4_Witness ==
  \E p \in Procs : /\ pc[p] = "done" /\ loc[p].sid = "s3"
                   /\ loc[p].writes = <<"RUNNING", "COMPLETED">>
                   /\ ~loc[p].clientFailed /\ ~loc[p].saveFailed
                   /\ loc[p].saved = 8 /\ NMR("s3") = 8

\* what C5 says about the end of a pass and about the attempts after a failed
\* one: with no bookkeeping call raising the pass writes RUNNING then
\* COMPLETED, with every attempt made; FAILED is written only after a
\* bookkeeping call raised
C5_SessionOutcome(p) ==
  /\ (pc[p] = "done" /\ loc[p].exc = NoError) =>
       /\ loc[p].writes = <<"RUNNING", "COMPLETED">>
       /\ loc[p].calls = Attempts(loc[p].sid)
  /\ (\E i \in 1 .. Len(loc[p].writes) : loc[p].writes[i] = "FAILED") =>
       loc[p].exc \in BookkeepingErrors
  /\ loc[p].exc # NoError => loc[p].exc \in BookkeepingErrors

\* C5 as stated: attempt-level errors are isolated, and the (model, run) pair
\* whose client call, extraction or save failed persists no RunResult.
C5_FailedPairPersistsNothing ==
  \A p \in Procs : OnSession(p) =>
    /\ C5_SessionOutcome(p)
    /\ loc[p].last \in {"client_fail", "parse_fail", "save_fail"} =>
         ~loc[p].lastSaved

\* C5 amended: attempt-level errors are isolated; the pair whose client call
\* or save failed persists no RunResult, while the pair whose extraction
\* failed still persists one (parse catches its own errors).
C5_AttemptErrorsIsolated ==
  \A p \in Procs : OnSession(p) =>
    /\ C5_SessionOutcome(p)
    /\ loc[p].last \in {"client_fail", "save_fail"} => ~loc[p].lastSaved
    /\ loc[p].last \in {"ok", "parse_fail"} => loc[p].lastSaved

\* C5 witness: a pass ended COMPLETED although client calls and saves failed
\* and its last attempt had a parse error
C5_Witness ==
  \E p \in Procs : /\ pc[p] = "done" /\ loc[p].sid = "s3"
                   /\ loc[p].writes = <<"RUNNING", "COMPLETED">>
                   /\ loc[p].clientFailed /\ loc[p].saveFailed
                   /\ loc[p].last = "parse_fail" /\ loc[p].lastSaved
                   /\ loc[p].calls = Attempts("s3")

\* C6: a session in FAILED state carries the message of the exception that
\* failed it.
C6_FailedCarriesMessage ==
  \A s \in Sessions : session[s].status = "FAILED" =>
    session[s].errorMessage # NULL

\* C7: whenever an id leaves the pending queue, no pending id had a greater
\* weight, whatever the order of the enqueues.
C7_HighestWeightFirst ==
  [][\A e \in queue : e[1] \notin Members(queue') =>
       \A f \in queue : f[2] <= e[2]]_vars

\* C7 witness: a worker has popped an id of weight 10 while an id of weight
\* 1 stays pending
C7_Witness ==
  \E w \in Workers : /\ pc[w] = "sadd" /\ loc[w].score = 10
                     /\ \E f \in queue : f[1] # loc[w].sid /\ f[2] = 1

\* C8: the pending queue holds each id at most once, with the weight of its
\* latest enqueue, and each run of enqueues of an id is popped exactly once
\* and returned at most once.
C8_EnqueueIsUpsert ==
  \A id \in Ids :
    LET entries == {e \in queue : e[1] = id}
    IN /\ Cardinality(entries) <= 1
       /\ \A e \in entries : e[2] = lastWeight[id]
       /\ pops[id] + Cardinality(entries) = episodes[id]
       /\ returned[id] <= pops[id]

\* C8 witness: s1 was enqueued twice with no dequeue in between and has then
\* been returned once, leaving the queue empty
C8_Witness ==
  /\ nEnq = 2 /\ episodes["s1"] = 1 /\ returned["s1"] = 1 /\ queue = {}
  /\ \A id \in Ids \ {"s1"} : episodes[id] = 0

\* C9 as stated: no session is processed by two workers at the same time.
C9_NoTwoWorkersOnOneSession ==
  \A w1 \in Workers, w2 \in Workers :
    (w1 # w2 /\ Holding(w1) /\ Holding(w2)) => loc[w1].sid # loc[w2].sid

\* C9 amended: each time an id is put into the pending queue it is returned
\* to at most one worker, so the workers processing an id at the same time
\* are never more than the times it was put into the queue: a session
\* enqueued once is held by at most one worker.
C9_OneWorkerPerEnqueue ==
  \A id \in Ids :
    /\ returned[id] <= episodes[id]
    /\ Cardinality({w \in Workers : Holding(w) /\ loc[w].sid = id})
         <= episodes[id]

\* C9 witness: s1, enqueued again after its dequeue, is held by both workers
C9_Witness ==
  /\ episodes["s1"] = 2
  /\ \A w \in Workers : Holding(w) /\ loc[w].sid = "s1"

\* C10: get_next_session removes the id it is about to return from the
\* pending queue, the id it returns is in the in-flight set, and on an empty
\* queue it returns none and changes neither the queue nor the in-flight set.
C10_DequeueMarksInFlight ==
  [][\A w \in Workers :
       /\ (pc[w] = "poll" /\ pc'[w] = "sadd") =>
            /\ <<loc'[w].sid, loc'[w].score>> \in queue
            /\ loc'[w].sid \notin Members(queue')
            /\ processing' = processing
       /\ (pc[w] = "sadd" /\ pc'[w] = "get_session") =>
            /\ loc'[w].sid = loc[w].sid
            /\ loc[w].sid \in processing'
            /\ queue' = queue
       /\ (pc[w] = "poll" /\ queue = {} /\ pc'[w] # "poll") =>
            /\ pc'[w] = "sleep5"
            /\ loc'[w].sid = NoSession
            /\ queue' = queue /\ processing' = processing]_vars

\* C10 witness: get_next_session has just returned an id that is in flight
\* and no longer pending
C10_Witness ==
  \E w \in Workers : /\ pc[w] = "get_session"
                     /\ loc[w].sid \in processing
                     /\ loc[w].sid \notin Members(queue)

\* C11: every id in the in-flight set is claimed by a worker: some worker is
\* between the return of get_next_session for that id and the end of its
\* process_session call; once that call is over the id has left the set.
C11_InFlightIsClaimed ==
  \A id \in processing :
    \E w \in Workers : /\ loc[w].sid = id
                       /\ Holding(w) \/ pc[w] \in {"done", "raised"}

\* C12: when get_session returns no row for the id, process_session returns
\* at once without raising, having written no status, called no client and
\* persisted no RunResult, and start_worker polls again.
C12_MissingSessionAbandoned ==
  [][\A w \in Workers :
       /\ (pc[w] = "get_session" /\ loc[w].sid \notin Sessions
           /\ pc'[w] # "get_session") =>
            \/ pc'[w] = "except" /\ loc'[w].exc = "get_session failed"
            \/ /\ pc'[w] = "done" /\ loc'[w].exc = NoError
               /\ loc'[w].writes = <<>> /\ loc'[w].calls = {}
               /\ loc'[w].saved = 0
               /\ session' = session /\ runResults' = runResults
       /\ (pc[w] = "done" /\ loc[w].sid \notin Sessions
           /\ loc[w].exc = NoError /\ pc'[w] # "done") =>
            /\ pc'[w] = "poll"
            /\ session' = session /\ runResults' = runResults]_vars

\* C12 witness: a worker's process_session has returned for the dequeued id
\* s0, which has no RunSession row, and no session row has changed
C12_Witness ==
  \E w \in Workers : /\ pc[w] = "done" /\ loc[w].sid = "s0"
                     /\ loc[w].exc = NoError /\ loc[w].writes = <<>>
                     /\ returned["s0"] = 1
                     /\ \A s \in Sessions : session[s].status = "QUEUED"

\* C13: a pass whose session has no active project runs with the
\* placeholder (name 'Unknown Project', no domain, no competitors, no
\* keywords); when no bookkeeping call raises it runs every query, makes
\* every attempt and writes RUNNING then COMPLETED; and for every response
\* text extract_project_mentions, called the way run_query calls it, returns
\* no project mention and no competitor mention.
C13_DefaultProjectCompletes ==
  \A p \in Procs : OnSession(p) =>
    LET l == loc[p]
        missing == SessionTable[l.sid].projectId \notin Projects
        info == ProjectInfo(l)
    IN /\ (missing /\ l.project # "unset") => l.project = "Unknown Project"
       /\ l.project = "Unknown Project" =>
            /\ missing
            /\ info.name = "Unknown Project" /\ info.domain = None
            /\ info.competitors = <<>> /\ info.keywords = <<>>
            /\ (pc[p] = "done" /\ l.exc = NoError) =>
                 /\ l.writes = <<"RUNNING", "COMPLETED">>
                 /\ l.queriesRun = 1 .. Len(Metadata(l.sid).queries)
                 /\ l.calls = Attempts(l.sid)
            /\ \A text \in Texts :
                 LET r == ExtractProjectMentions(text, info.domain,
                                                 info.competitors)
                 IN /\ r.project_mentions = <<>>
                    /\ r.competitor_mentions = <<>>
                    /\ r.total_mentions = 0

\* C13 witness: the pass over s2, whose project has no active row, has
\* made both of its attempts and is COMPLETED
C13_Witness ==
  \E p \in Procs : /\ pc[p] = "done" /\ loc[p].sid = "s2"
                   /\ loc[p].project = "Unknown Project"
                   /\ loc[p].writes = <<"RUNNING", "COMPLETED">>
                   /\ Cardinality(loc[p].calls) = 2

\* C14: a declared model without a client gets no client call and no
\* RunResult and raises nothing; the model loop goes on, in declaration
\* order, with the next declared model that has a client, and the session
\* is COMPLETED when no bookkeeping call raised.
C14_UnconfiguredModelSkipped ==
  [][\A p \in Procs : OnSession(p) =>
       LET l == loc[p]
           n == loc'[p]
           md == Metadata(l.sid)
           cm == ConfiguredModels(l.sid)
           later == {k \in cm : k > l.mi}
       IN /\ \A c \in n.calls : c[2] \in cm
          /\ n.saved <= Cardinality(n.calls)
          /\ (pc[p] = "run_query" /\ pc'[p] = "attempt") =>
               /\ n.mi \in cm /\ \A k \in cm : n.mi <= k
               /\ n.ri = 0
          /\ (pc[p] = "attempt" /\ pc'[p] = "attempt" /\ n.mi # l.mi) =>
               /\ n.qi = l.qi /\ l.ri = md.runCount - 1 /\ n.ri = 0
               /\ n.mi \in later /\ \A k \in later : n.mi <= k
          /\ (pc[p] = "attempt" /\ pc'[p] \in {"run_query", "set_completed"}) =>
               later = {} /\ l.ri = md.runCount - 1
          /\ pc[p] \in {"run_query", "attempt"} =>
               n.exc = l.exc /\ pc'[p] \notin {"except", "raised"}
          /\ (pc[p] = "done" /\ l.exc = NoError) =>
               l.writes = <<"RUNNING", "COMPLETED">>]_vars

\* C14 witness: the pass over s3, whose second declared model has no
\* client, is COMPLETED with calls for its first and third model only
C14_Witness ==
  \E p \in Procs : /\ pc[p] = "done" /\ loc[p].sid = "s3"
                   /\ loc[p].writes = <<"RUNNING", "COMPLETED">>
                   /\ Metadata("s3").models[2] \notin Clients
                   /\ {c[2] : c \in loc[p].calls} = {1, 3}
                   /\ loc[p].exc = NoError

\* C15: no error ends the worker loop. A worker is always at a point of
\* the loop from which it can go on; an exception that leaves
\* process_session (the FAILED write raising) sends it to the 10-unit
\* sleep, a dequeue that returned none to the 5-unit sleep, and nothing
\* else does; after either sleep it polls the queue again.
C15_WorkerNeverStops ==
  /\ [](\A w \in Workers :
          /\ pc[w] \in {"poll", "sadd", "sleep5", "sleep10", "get_session",
                        "set_running", "get_project", "run_query", "attempt",
                        "set_completed", "except", "done", "raised"}
          /\ ENABLED (\/ GetNextZPopMax(w) \/ GetNextSAdd(w) \/ Wake(w)
                      \/ GetSession(w) \/ SetRunning(w) \/ GetProjectInfo(w)
                      \/ RunQuery(w) \/ Attempt(w, Outcomes)
                      \/ SetCompleted(w) \/ SetFailed(w) \/ Return(w)))
  /\ [][\A w \in Workers :
          /\ (pc[w] = "raised" /\ pc'[w] # "raised") => pc'[w] = "sleep10"
          /\ (pc[w] = "except" /\ pc'[w] # "except") =>
               pc'[w] \in {"done", "raised"}
          /\ (pc'[w] = "sleep10" /\ pc[w] # "sleep10") => pc[w] = "raised"
          /\ (pc'[w] = "sleep5" /\ pc[w] # "sleep5") =>
               /\ pc[w] \in {"poll", "sadd"}
               /\ loc'[w].sid = NoSession
          /\ (pc[w] \in {"sleep5", "sleep10"} /\ pc'[w] # pc[w]) =>
               pc'[w] = "poll"
          /\ (pc[w] = "done" /\ pc'[w] # "done") => pc'[w] = "poll"]_vars

\* C15 witness: one worker sleeps 10 after the FAILED write raised, the
\* other sleeps 5 after a dequeue that returned none
C15_Witness ==
  pc["w1"] = "sleep10" /\ pc["w2"] = "sleep5"

\* C16: one invocation of query makes at most 3 provider calls; it returns
\* on the first call that succeeds and makes no call after it; it raises
\* only after 3 failed calls in a row; the wait before each retry is between
\* 4 and 10 and never smaller than the wait before.
C16_AtMostThreeCalls ==
  /\ [](LET c == clientCall
        IN /\ c.calls <= 3
           /\ c.pc = "call" => c.calls = c.attempt_number - 1
           /\ c.pc \in {"call", "wait"} =>
                Len(c.errors) = c.calls /\ c.calls < 3
           /\ c.pc = "returned" =>
                c.calls = Len(c.errors) + 1 /\ c.result = "response"
           /\ c.pc = "raised" => c.calls = 3 /\ Len(c.errors) = 3
           /\ Len(c.waits) = (IF c.pc = "raised" THEN 2 ELSE Len(c.errors))
           /\ \A i \in DOMAIN c.waits : 4 <= c.waits[i] /\ c.waits[i] <= 10
           /\ \A i \in DOMAIN c.waits, j \in DOMAIN c.waits :
                i < j => c.waits[i] <= c.waits[j])
  /\ [][clientCall.pc = "returned" =>
          clientCall'.pc = "idle" /\ clientCall'.calls = 0]_vars

\* C16 witness: a query that failed twice, waited twice and returned the
\* response of its third call
C16_Witness ==
  /\ clientCall.pc = "returned" /\ clientCall.calls = 3
  /\ clientCall.waits = <<4, 4>>

\* C17: a terminal provider error is surfaced at once: the call that
\* raised it is the only call, and no retry follows.
C17_TerminalErrorNotRetried ==
  \A i \in DOMAIN clientCall.errors :
    clientCall.errors[i] \in TerminalErrors =>
      /\ clientCall.pc = "raised"
      /\ clientCall.calls = 1

\* C18: the mention list stored with a RunResult is the union of the generic
\* mentions, the project mentions and the competitor mentions, and no two
\* of its entries are equal up to letter case.
C18_PersistedMentionsAreUnion ==
  extraction.pc = "saved" =>
    LET pm == extraction.project_mentions
    IN /\ extraction.saved_mentions =
            extraction.parsed.mentions \cup Range(pm.project_mentions)
              \cup Range(pm.competitor_mentions)
       /\ \A a \in extraction.saved_mentions, b \in extraction.saved_mentions :
            StrLower(a) = StrLower(b) => a = b

\* C19: no mention _extract_mentions returns is a stop-list word, and none
\* is shorter than 2 characters.
C19_NoStopWordNoShortMention ==
  extraction.pc \in {"parsed", "projected", "merged", "saved", "save_failed"} =>
    \A m \in extraction.parsed.mentions : m \notin StopList /\ Len(m) >= 2

\* C20: _extract_domain_name gives 'Acme' for 'https://www.Acme.io/path',
\* and the empty string for a domain with no scheme and no dot, which then
\* yields no project mention and no competitor mention.
C20_DomainNameExtraction ==
  extraction.pc \in {"projected", "merged", "saved", "save_failed"} =>
    LET info == extraction.project_info
        pm == extraction.project_mentions
        plain(d) == \A i \in DOMAIN d : d[i] \notin {":", "/", "."}
    IN /\ info.domain = Some(dAcmeUrl) => pm.project_name = wAcme
       /\ (info.domain # None /\ plain(info.domain[1])) =>
            pm.project_name = <<>> /\ pm.project_mentions = <<>>
       /\ (\A i \in DOMAIN info.competitors : plain(info.competitors[i])) =>
            pm.competitor_mentions = <<>>

\* C29 as stated, in its safety form: once a process_session call of a
\* worker on an existing session has ended (returned or raised), and no
\* other pass is under way on that session, the session's status is
\* COMPLETED or FAILED -- it is not left in RUNNING (or QUEUED), even when
\* session-store calls failed.
C29_EndedPassLeavesTerminalStatus ==
  \A w \in Workers :
    (/\ pc[w] \in {"done", "raised"}
     /\ loc[w].sid \in Sessions
     /\ passes[loc[w].sid] > 0
     /\ \A p \in Procs \ {w} : ~(InPass(p) /\ loc[p].sid = loc[w].sid))
      => session[loc[w].sid].status \in Terminal

\* C30 as stated: no enqueued session is lost by dequeue -- every id that
\* was put into the pending queue is still pending, or is in the in-flight
\* set, or has been returned by get_next_session to a worker (or is at this
\* moment between the pop and the in-flight write of a get_next_session
\* call); a failed in-flight write leaves no id handed to nobody.
C30_NoEnqueuedSessionLost ==
  \A id \in Ids :
    episodes[id] > 0 =>
      \/ id \in Members(queue)
      \/ id \in processing
      \/ returned[id] > 0
      \/ \E w \in Workers : pc[w] = "sadd" /\ loc[w].sid = id

\* C27: within one run_query the attempts are issued in declared model
\* order and, per model, with the run index ascending from 0 to
\* run_count - 1, no pair skipped; inside an attempt the prompt is built
\* before the client call, the call comes before the extraction and the
\* extraction before the save; and the result list run_query returns holds
\* the saved attempts in that same order.
C27_AttemptsInDeclaredOrder ==
  \A p \in Procs :
    (InPass(p) /\ loc[p].sid \in Sessions) =>
      LET l == loc[p]
          md == Metadata(l.sid)
          pairs == {<<m, r>> \in (1 .. Len(md.models))
                                   \X (0 .. (md.runCount - 1)) :
                      md.models[m] \in Clients}
          Before(a, b) == a[1] < b[1] \/ (a[1] = b[1] /\ a[2] < b[2])
          iss == [i \in 1 .. Len(l.issued) |->
                    <<l.issued[i][1], l.issued[i][2]>>]
          Pos(x) == CHOOSE i \in DOMAIN l.steps : l.steps[i] = x
          Has(x) == \E i \in DOMAIN l.steps : l.steps[i] = x
          Then(a, b) == Has(b) => (Has(a) /\ Pos(a) < Pos(b))
      IN /\ \A i \in DOMAIN iss : iss[i] \in pairs
         /\ \A i, j \in DOMAIN iss : i < j => Before(iss[i], iss[j])
         /\ \A i \in DOMAIN iss : \A e \in pairs :
              Before(e, iss[i]) => \E j \in 1 .. (i - 1) : iss[j] = e
         /\ pc[p] = "attempt" =>
              /\ <<l.mi, l.ri>> \in pairs
              /\ \A e \in pairs : Before(e, <<l.mi, l.ri>>) <=> e \in Range(iss)
         /\ \A i \in DOMAIN l.results : l.results[i] \in pairs
         /\ \A i, j \in DOMAIN l.results :
              i < j => Before(l.results[i], l.results[j])
         /\ pc[p] = "attempt" => Range(l.results) \subseteq Range(iss)
         /\ Then("build_findability_prompt", "client.query")
         /\ Then("client.query", "parse")
         /\ Then("parse", "extract_project_mentions")
         /\ Then("extract_project_mentions", "save_run_result")
         /\ Then("save_run_result", "results.append")

\* C27 witness: the pass over s3 stands before the second run of its third
\* declared model (the second one has no client); the three attempts issued
\* so far went through extraction and save, and two of them were appended
C27_Witness ==
  \E p \in Procs :
    /\ pc[p] = "attempt" /\ loc[p].sid = "s3"
    /\ loc[p].mi = 3 /\ loc[p].ri = 1
    /\ Len(loc[p].issued) = 3
    /\ loc[p].results = <<<<1, 0>>, <<3, 0>>>>
    /\ loc[p].last = "parse_fail"
    /\ Len(loc[p].steps) = 6

\* C28: the market-context provider is called exactly once per run_query,
\* before any model call of that run_query; every attempt's prompt is built
\* with the one value that call left; when the provider raised, that value
\* is "absent" and every attempt of the query is still executed.
C28_MarketContextOncePerQuery ==
  /\ [](\A p \in Procs :
          (InPass(p) /\ loc[p].sid \in Sessions) =>
            LET l == loc[p]
            IN /\ l.provider = Cardinality(l.queriesRun)
               /\ \A i \in DOMAIN l.issued : l.issued[i][3] = l.market
               /\ pc[p] = "attempt" =>
                    /\ l.analysis \in AnalyzeOutcomes
                    /\ l.market = IF l.analysis = "raises"
                                  THEN "absent" ELSE "context")
  /\ [][\A p \in Procs :
          /\ (pc[p] = "run_query" /\ pc'[p] # "run_query") =>
               /\ loc'[p].provider = loc[p].provider + 1
               /\ loc[p].issued = <<>>
               /\ loc'[p].calls = loc[p].calls
          /\ (pc[p] = "attempt" /\ loc'[p].sid = loc[p].sid) =>
               loc'[p].provider = loc[p].provider
          /\ (pc[p] = "attempt" /\ pc'[p] # "attempt") =>
               \A c \in Attempts(loc[p].sid) :
                 c[1] = loc[p].qi => c \in loc'[p].calls]_vars

\* C28 witness: the provider raised for the second query of s3, and the
\* pass stands before the last attempt of that query, the three issued ones
\* having been built without market context
C28_Witness ==
  \E p \in Procs :
    /\ pc[p] = "attempt" /\ loc[p].sid = "s3" /\ loc[p].qi = 2
    /\ loc[p].analysis = "raises" /\ loc[p].market = "absent"
    /\ loc[p].provider = 2
    /\ Len(loc[p].issued) = 3
    /\ \A i \in DOMAIN loc[p].issued : loc[p].issued[i][3] = "absent"

\* C21 as stated: _extract_snippets returns, without duplicates, the first
\* 10 of the sentence segments (text split on '.', '!', '?', stripped) that
\* contain some mention as a case-insensitive substring and are at least 20
\* characters long: never more than 10 entries, every entry such a segment,
\* and, when there are at most 10 such segments, all of them, a segment of
\* exactly 20 characters included.
C21_SnippetsAsClaimed ==
  snippetCall.pc = "returned" =>
    LET segments == SplitSentences(snippetCall.text)
        Qualifies(segment) ==
          /\ Len(Strip(segment)) >= 20
          /\ \E i \in DOMAIN snippetCall.mentions :
               Contains(StrLower(snippetCall.mentions[i]), StrLower(segment))
        qualifying == {Strip(segments[i]) :
                         i \in {k \in DOMAIN segments : Qualifies(segments[k])}}
        r == snippetCall.snippets
    IN /\ Len(r) <= 10
       /\ \A i, j \in DOMAIN r : r[i] = r[j] => i = j
       /\ Range(r) \subseteq qualifying
       /\ Cardinality(qualifying) <= 10 => Range(r) = qualifying

\* C22 as stated: _extract_citations is idempotent -- applied to the text
\* formed from its own de-duplicated output it yields the same set of
\* citations as the first application (the output is a set of values, none
\* twice).
C22_CitationsIdempotent ==
  (citationCall.pc = "returned" /\ citationCall.round = 2) =>
    citationCall.citations = citationCall.first

\* C26: the extraction engine is total. parse on a response it cannot
\* handle returns empty citations, mentions and snippets with an error
\* annotation, and on a text it returns without one; extract_project_mentions
\* on such a response returns empty mention lists; neither raises: each
\* step of the attempt is followed by the next one up to save_run_result,
\* which is called with an empty mention list and stores the RunResult
\* unless the save itself fails.
C26_ExtractionIsTotal ==
  /\ [](LET e == extraction
            failed == e.response = None
            parsedOn == {"parsed", "projected", "merged", "saved",
                         "save_failed"}
            projectedOn == {"projected", "merged", "saved", "save_failed"}
            mergedOn == {"merged", "saved", "save_failed"}
        IN /\ (e.pc \in parsedOn /\ failed) =>
                /\ e.parsed.citations = {}
                /\ e.parsed.mentions = {}
                /\ e.parsed.snippets = <<>>
                /\ e.parsed.error
           /\ (e.pc \in parsedOn /\ ~failed) => ~e.parsed.error
           /\ (e.pc \in projectedOn /\ failed) =>
                /\ e.project_mentions.project_mentions = <<>>
                /\ e.project_mentions.competitor_mentions = <<>>
                /\ e.project_mentions.total_mentions = 0
           /\ (e.pc \in mergedOn /\ failed) => e.all_mentions = {}
           /\ e.pc = "saved" => e.saved_mentions = e.all_mentions)
  /\ [][/\ extraction.pc = "response" => extraction'.pc = "parsed"
        /\ extraction.pc = "parsed" => extraction'.pc = "projected"
        /\ extraction.pc = "projected" => extraction'.pc = "merged"
        /\ extraction.pc = "merged" =>
             extraction'.pc \in {"saved", "save_failed"}
        /\ extraction'.response = extraction.response]_vars

\* C26 witness: the client returned None for a project whose name would
\* have been searched for; parse and extract_project_mentions came back
\* empty and the RunResult is stored with an empty mention list
C26_Witness ==
  /\ extraction.pc = "saved"
  /\ extraction.response = None
  /\ extraction.project_info.domain = Some(dNotionSo)
  /\ extraction.parsed = ParseError
  /\ extraction.project_mentions.project_name = wNotion
  /\ extraction.saved_mentions = {}

\* the places of a piece of text in a prompt
Positions(prompt, piece) == {i \in DOMAIN prompt : prompt[i] = piece}

\* the headings of the sections after the preamble, in the declared order
SectionHeadings ==
  <<"MARKET CONTEXT:", "PRODUCT INFORMATION:", "USER QUERY: ",
    "RESPONSE GUIDELINES:">>

\* a market context each of whose sub-parts is empty
AllEmptyMarketContext(market_context) ==
  /\ market_context # None
  /\ market_context[1].top_domains \in {None, Some(<<>>)}
  /\ market_context[1].competitor_presence \in {None, Some(<<>>)}
  /\ market_context[1].total_results \in {None, Some(0)}

\* C23: build_findability_prompt is deterministic -- the same arguments
\* give the same prompt again -- and composes its sections in the fixed
\* order preamble, market context, product information, user query,
\* response guidelines, each at most once; the prompt differs from the
\* prompt built without market context by exactly the MARKET CONTEXT
\* section, placed right after the preamble, everything else and its order
\* unchanged; and a market context whose sub-parts are all empty (no top
\* domains, no competitors, total results 0) gives the prompt that no
\* market context gives.
C23_PromptSectionsInFixedOrder ==
  promptCall.pc = "returned" =>
    LET prompt == promptCall.prompt
        without == BuildFindabilityPrompt(promptCall.query,
                                          promptCall.project_info, None,
                                          promptCall.prompt_type)
        preamble == BaseInstructions(promptCall.prompt_type)
        extra == Len(prompt) - Len(without)
        section == SubSeq(prompt, Len(preamble) + 1, Len(preamble) + extra)
        at(i) == Positions(prompt, SectionHeadings[i])
    IN /\ promptCall.round = 2 => prompt = promptCall.first
       /\ SubSeq(prompt, 1, Len(preamble)) = preamble
       /\ \A i \in 1 .. 4 :
            /\ Cardinality(at(i)) <= 1
            /\ \A a \in at(i) : a > Len(preamble)
            /\ \A j \in (i + 1) .. 4 : \A a \in at(i), b \in at(j) : a < b
       /\ Cardinality(at(3)) = 1
       /\ extra >= 0
       /\ prompt = SubSeq(without, 1, Len(preamble)) \o section
                     \o SubSeq(without, Len(preamble) + 1, Len(without))
       /\ extra > 0 =>
            /\ promptCall.market_context # None
            /\ extra > 4
            /\ SubSeq(section, 1, 4) = <<"\n", "\n", "MARKET CONTEXT:", "\n">>
            /\ \A i \in 2 .. 4 : Positions(section, SectionHeadings[i]) = {}
       /\ AllEmptyMarketContext(promptCall.market_context) =>
            prompt = without

\* C23 witness: a prompt built twice from the same arguments, with a
\* market context that names leading domains and a project that has a name;
\* it holds a MARKET CONTEXT section the prompt without market context
\* lacks
C23_Witness ==
  /\ promptCall.pc = "returned"
  /\ promptCall.round = 2
  /\ promptCall.market_context # None
  /\ promptCall.market_context[1].top_domains = Some(DomainCounts)
  /\ promptCall.project_info # None
  /\ promptCall.project_info[1].name = Some(Some("Acme"))
  /\ Positions(promptCall.prompt, "MARKET CONTEXT:") # {}
  /\ Positions(promptCall.prompt, "PRODUCT INFORMATION:") # {}
  /\ promptCall.prompt #
       BuildFindabilityPrompt(promptCall.query, promptCall.project_info,
                              None, promptCall.prompt_type)

\* C24 as stated: an unknown prompt variant falls back to findability --
\* for a prompt_type outside findability, recommendation and comparison the
\* prompt returned is the prompt returned for 'findability' with the same
\* other arguments (same preamble, same response-guideline block).
C24_UnknownFallsBackToFindability ==
  (/\ promptCall.pc = "returned"
   /\ promptCall.prompt_type \notin
        {"findability", "recommendation", "comparison"}) =>
    promptCall.prompt =
      BuildFindabilityPrompt(promptCall.query, promptCall.project_info,
                             promptCall.market_context, "findability")

\* C25 as stated: in the product information section each line (Product,
\* Description, Website, Key features) appears exactly when the project
\* field is present and non-empty -- a name or description that is present
\* but empty or null gives no line --, the section is there exactly when
\* some line is, and Key features lists the first min(5, n) keywords in
\* their original order.
C25_ProductLinesOnlyForNonEmptyFields ==
  promptCall.pc = "returned" =>
    LET prompt == promptCall.prompt
        info == promptCall.project_info
        filled(field) ==
          /\ info # None
          /\ info[1][field] # None
          /\ info[1][field][1] # None
          /\ info[1][field][1][1] # ""
        keywords == IF info # None /\ info[1].keywords # None
                      THEN info[1].keywords[1] ELSE <<>>
        listed == IF Len(keywords) < 5 THEN Len(keywords) ELSE 5
        line(label) == Positions(prompt, label) # {}
    IN /\ line("Product: ") <=> filled("name")
       /\ line("Description: ") <=> filled("oneLiner")
       /\ line("Website: ") <=> filled("domain")
       /\ line("Key features: ") <=> keywords # <<>>
       /\ \A at \in Positions(prompt, "Key features: ") :
            /\ \A i \in 1 .. listed : prompt[at + (2 * i) - 1] = keywords[i]
            /\ \A i \in 1 .. (listed - 1) : prompt[at + (2 * i)] = ", "
            /\ prompt[at + (2 * listed)] = "\n"
       /\ line("PRODUCT INFORMATION:") <=>
            (filled("name") \/ filled("oneLiner") \/ filled("domain")
               \/ keywords # <<>>)

====
